---- MODULE Spec2Model ----
(***************************************************************************)
(* Query assistant of finance_notebook: router -> validator -> executor -> *)
(* narrator (src/src/ai_router.py, src/src/ai_assistant_agent.py,           *)
(* src/src/ai_tools.py) and the chat turn of app/ai_assistant.py.           *)
(*                                                                         *)
(* JSON values are records [k, b, i, s, m]:                                 *)
(*   k  the Python type: "null" "bool" "int" "float" "nan" "inf" "str"      *)
(*      "list" "obj"                                                        *)
(*   b  the value of a bool                                                 *)
(*   i  the value of an int; a float in units of 1/FloatScale; the sign of *)
(*      an infinity; the length of a list (its elements are the int 1)      *)
(*   s  the characters of a str, a sequence of one-character strings        *)
(*   m  the mapping of an obj, a function from keys to values               *)
(***************************************************************************)
EXTENDS Integers, Sequences, FiniteSets, TLC

\* ------------------------------------------------------------------------
\* Python values
\* ------------------------------------------------------------------------

FloatScale == 10

EmptyMap == [x \in {} |-> 0]

Null == [k |-> "null", b |-> FALSE, i |-> 0, s |-> <<>>, m |-> EmptyMap]
Bool(x) == [k |-> "bool", b |-> x, i |-> 0, s |-> <<>>, m |-> EmptyMap]
IntV(x) == [k |-> "int", b |-> FALSE, i |-> x, s |-> <<>>, m |-> EmptyMap]
FloatV(x) == [k |-> "float", b |-> FALSE, i |-> x, s |-> <<>>, m |-> EmptyMap]
NaN == [k |-> "nan", b |-> FALSE, i |-> 0, s |-> <<>>, m |-> EmptyMap]
Inf(sign) == [k |-> "inf", b |-> FALSE, i |-> sign, s |-> <<>>, m |-> EmptyMap]
Str(x) == [k |-> "str", b |-> FALSE, i |-> 0, s |-> x, m |-> EmptyMap]
List(len) == [k |-> "list", b |-> FALSE, i |-> len, s |-> <<>>, m |-> EmptyMap]
Obj(x) == [k |-> "obj", b |-> FALSE, i |-> 0, s |-> <<>>, m |-> x]

\* bool(v): Python truthiness, as used by `x or default` and `if not x`
Truthy(v) ==
    CASE v.k = "null" -> FALSE
      [] v.k = "bool" -> v.b
      [] v.k = "int" -> v.i # 0
      [] v.k = "float" -> v.i # 0
      [] v.k = "nan" -> TRUE
      [] v.k = "inf" -> TRUE
      [] v.k = "str" -> v.s # <<>>
      [] v.k = "list" -> v.i > 0
      [] v.k = "obj" -> DOMAIN v.m # {}

\* dict.get(key, default)
Get(m, key, default) == IF key \in DOMAIN m THEN m[key] ELSE default

\* d[key] = v
Put(m, key, v) == [x \in (DOMAIN m) \cup {key} |-> IF x = key THEN v ELSE m[x]]

\* d.pop(key, None)
Pop(m, key) == [x \in (DOMAIN m) \ {key} |-> m[x]]

\* ------------------------------------------------------------------------
\* Python strings
\* ------------------------------------------------------------------------

Whitespace == {" ", "\t", "\n"}

DigitChars == <<"0", "1", "2", "3", "4", "5", "6", "7", "8", "9">>

IsDigit(c) == \E d \in 1..10 : DigitChars[d] = c

DigitOf(c) == (CHOOSE d \in 1..10 : DigitChars[d] = c) - 1

RECURSIVE LStrip(_)
LStrip(s) == IF s # <<>> /\ Head(s) \in Whitespace THEN LStrip(Tail(s)) ELSE s

RECURSIVE RStrip(_)
RStrip(s) ==
    IF s # <<>> /\ s[Len(s)] \in Whitespace THEN RStrip(SubSeq(s, 1, Len(s) - 1)) ELSE s

\* str.strip()
Strip(s) == RStrip(LStrip(s))

\* s[:n]
Prefix(s, n) == SubSeq(s, 1, IF Len(s) < n THEN Len(s) ELSE n)

\* decimal digits of a natural number
RECURSIVE NatStr(_)
NatStr(n) == IF n < 10 THEN <<DigitChars[n + 1]>> ELSE NatStr(n \div 10) \o <<DigitChars[(n % 10) + 1]>>

IntStr(n) == IF n < 0 THEN <<"-">> \o NatStr(-n) ELSE NatStr(n)

\* value of a sequence of digit characters
RECURSIVE DigitsVal(_)
DigitsVal(s) == IF s = <<>> THEN 0 ELSE 10 * DigitsVal(SubSeq(s, 1, Len(s) - 1)) + DigitOf(s[Len(s)])

AllDigits(s) == s # <<>> /\ \A p \in 1..Len(s) : IsDigit(s[p])

\* repr of a float held in units of 1/FloatScale, e.g. 25 -> "2.5"
FloatStr(x) ==
    LET a == IF x < 0 THEN -x ELSE x
    IN (IF x < 0 THEN <<"-">> ELSE <<>>) \o NatStr(a \div FloatScale) \o <<".">> \o NatStr(a % FloatScale)

\* str(v); the repr of a non-empty obj is outside the modelled inputs
PyStr(v) ==
    CASE v.k = "null" -> <<"N", "o", "n", "e">>
      [] v.k = "bool" -> IF v.b THEN <<"T", "r", "u", "e">> ELSE <<"F", "a", "l", "s", "e">>
      [] v.k = "int" -> IntStr(v.i)
      [] v.k = "float" -> FloatStr(v.i)
      [] v.k = "nan" -> <<"n", "a", "n">>
      [] v.k = "inf" -> IF v.i < 0 THEN <<"-", "i", "n", "f">> ELSE <<"i", "n", "f">>
      [] v.k = "str" -> v.s
      [] v.k = "list" /\ v.i = 0 -> <<"[", "]">>
      [] v.k = "list" /\ v.i = 1 -> <<"[", "1", "]">>
      [] v.k = "list" /\ v.i = 2 -> <<"[", "1", ",", " ", "1", "]">>
      [] v.k = "obj" /\ DOMAIN v.m = {} -> <<"{", "}">>

\* the text after an optional leading minus sign
Unsigned(t) == IF t # <<>> /\ Head(t) = "-" THEN Tail(t) ELSE t

Negative(t) == t # <<>> /\ Head(t) = "-"

\* int(v): ok is FALSE where Python raises ValueError, TypeError or
\* OverflowError.  A str is stripped and read as [-]digits.
PyInt(v) ==
    CASE v.k = "bool" -> [ok |-> TRUE, i |-> IF v.b THEN 1 ELSE 0]
      [] v.k = "int" -> [ok |-> TRUE, i |-> v.i]
      [] v.k = "float" ->
            [ok |-> TRUE, i |-> IF v.i < 0 THEN -((-v.i) \div FloatScale) ELSE v.i \div FloatScale]
      [] v.k = "str" ->
            LET t == Strip(v.s)
                u == Unsigned(t)
            IN IF AllDigits(u)
               THEN [ok |-> TRUE, i |-> IF Negative(t) THEN -DigitsVal(u) ELSE DigitsVal(u)]
               ELSE [ok |-> FALSE, i |-> 0]
      [] OTHER -> [ok |-> FALSE, i |-> 0]

\* position of the first "." of s, or 0
DotPos(s) == IF \E p \in 1..Len(s) : s[p] = "." THEN CHOOSE p \in 1..Len(s) : s[p] = "." /\ \A q \in 1..(p - 1) : s[q] # "." ELSE 0

\* float(v): ok is FALSE where Python raises.  A str is stripped and read as
\* nan, [-]inf, or [-]digits[.digit] (one fractional digit: FloatScale = 10);
\* exponents and longer fractions are outside the modelled inputs.
PyFloat(v) ==
    CASE v.k = "bool" -> [ok |-> TRUE, v |-> FloatV(IF v.b THEN FloatScale ELSE 0)]
      [] v.k = "int" -> [ok |-> TRUE, v |-> FloatV(v.i * FloatScale)]
      [] v.k \in {"float", "nan", "inf"} -> [ok |-> TRUE, v |-> v]
      [] v.k = "str" ->
            LET t == Strip(v.s)
                u == Unsigned(t)
                sign == IF Negative(t) THEN -1 ELSE 1
                dot == DotPos(u)
                whole == IF dot = 0 THEN u ELSE SubSeq(u, 1, dot - 1)
                frac == IF dot = 0 THEN <<>> ELSE SubSeq(u, dot + 1, Len(u))
            IN IF u = <<"n", "a", "n">> THEN [ok |-> TRUE, v |-> NaN]
               ELSE IF u = <<"i", "n", "f">> THEN [ok |-> TRUE, v |-> Inf(sign)]
               ELSE IF AllDigits(whole) /\ (frac = <<>> \/ (AllDigits(frac) /\ Len(frac) = 1))
               THEN [ok |-> TRUE,
                     v |-> FloatV(sign * (DigitsVal(whole) * FloatScale + DigitsVal(frac)))]
               ELSE [ok |-> FALSE, v |-> Null]
      [] OTHER -> [ok |-> FALSE, v |-> Null]

\* max(lo, min(hi, v)) on ints
\* a clamp without the upper bound
ClampInt_NoUpper(v, lo, hi) == IF v > lo THEN v ELSE lo

ClampInt(v, lo, hi) ==
    LET a == IF v < hi THEN v ELSE hi
    IN IF a > lo THEN a ELSE lo

\* max(lo, min(hi, v)) on floats: a comparison with nan is False, so
\* min(hi, nan) is hi
ClampFloat(v, lo, hi) ==
    LET a == CASE v.k = "nan" -> FloatV(hi)
               [] v.k = "inf" -> IF v.i < 0 THEN v ELSE FloatV(hi)
               [] v.k = "float" -> IF v.i < hi THEN v ELSE FloatV(hi)
    IN IF a.k = "float" /\ a.i > lo THEN a ELSE FloatV(lo)

\* ------------------------------------------------------------------------
\* Dates (datetime.date as [y, m, d])
\* ------------------------------------------------------------------------

IsLeap(y) == (y % 4 = 0) /\ ((y % 100 # 0) \/ (y % 400 = 0))

DaysInMonth(y, m) ==
    IF m = 2 THEN (IF IsLeap(y) THEN 29 ELSE 28)
    ELSE IF m \in {4, 6, 9, 11} THEN 30 ELSE 31

DaysBeforeYear(y) == 365 * (y - 1) + ((y - 1) \div 4) - ((y - 1) \div 100) + ((y - 1) \div 400)

RECURSIVE DaysBeforeMonth(_, _)
DaysBeforeMonth(y, m) == IF m = 1 THEN 0 ELSE DaysBeforeMonth(y, m - 1) + DaysInMonth(y, m - 1)

\* date.toordinal()
ToOrdinal(d) == DaysBeforeYear(d.y) + DaysBeforeMonth(d.y, d.m) + d.d

\* date.fromordinal(n)
FromOrdinal(n) ==
    LET y == CHOOSE c \in (n \div 366)..((n \div 365) + 1) :
                 DaysBeforeYear(c) < n /\ n <= DaysBeforeYear(c + 1)
        r == n - DaysBeforeYear(y)
        m == CHOOSE c \in 1..12 :
                 DaysBeforeMonth(y, c) < r /\ r <= DaysBeforeMonth(y, c) + DaysInMonth(y, c)
    IN [y |-> y, m |-> m, d |-> r - DaysBeforeMonth(y, m)]

\* d - timedelta(days=k)
MinusDays(d, k) == FromOrdinal(ToOrdinal(d) - k)

\* digits of n, zero-padded on the left to width w
RECURSIVE ZeroPad(_, _)
ZeroPad(s, w) == IF Len(s) >= w THEN s ELSE ZeroPad(<<"0">> \o s, w)

\* d.strftime("%Y-%m-%d")
Strftime(d) ==
    ZeroPad(NatStr(d.y), 4) \o <<"-">> \o ZeroPad(NatStr(d.m), 2) \o <<"-">> \o ZeroPad(NatStr(d.d), 2)

\* _month_start(d)
month_start(d) == [y |-> d.y, m |-> d.m, d |-> 1]

\* a _prev_month_range that takes the year of d for the previous month
prev_month_range_SameYear(d) ==
    LET first_this == month_start(d)
        last_prev == MinusDays(first_this, 1)
        first_prev == [y |-> d.y, m |-> last_prev.m, d |-> 1]
    IN <<first_prev, [y |-> d.y, m |-> last_prev.m, d |-> last_prev.d]>>

\* _prev_month_range(d)
prev_month_range(d) ==
    LET first_this == month_start(d)
        last_prev == MinusDays(first_this, 1)
        first_prev == [y |-> last_prev.y, m |-> last_prev.m, d |-> 1]
    IN <<first_prev, last_prev>>

\* ------------------------------------------------------------------------
\* ai_router.py
\* ------------------------------------------------------------------------

s_none == <<"n", "o", "n", "e">>
s_get_latest == <<"g", "e", "t", "_", "l", "a", "t", "e", "s", "t">>
s_sum_by_merchant == <<"s", "u", "m", "_", "b", "y", "_", "m", "e", "r", "c", "h", "a", "n", "t">>
s_sum_by_category == <<"s", "u", "m", "_", "b", "y", "_", "c", "a", "t", "e", "g", "o", "r", "y">>
s_top_transactions == <<"t", "o", "p", "_", "t", "r", "a", "n", "s", "a", "c", "t", "i", "o", "n", "s">>
s_group_by_month == <<"g", "r", "o", "u", "p", "_", "b", "y", "_", "m", "o", "n", "t", "h">>
s_outliers_large == <<"o", "u", "t", "l", "i", "e", "r", "s", "_", "l", "a", "r", "g", "e">>
s_recurring_merchants == <<"r", "e", "c", "u", "r", "r", "i", "n", "g", "_", "m", "e", "r", "c", "h", "a", "n", "t", "s">>
s_merchant_breakdown == <<"m", "e", "r", "c", "h", "a", "n", "t", "_", "b", "r", "e", "a", "k", "d", "o", "w", "n">>
s_category_trend == <<"c", "a", "t", "e", "g", "o", "r", "y", "_", "t", "r", "e", "n", "d">>

s_last_7_days == <<"l", "a", "s", "t", "_", "7", "_", "d", "a", "y", "s">>
s_last_30_days == <<"l", "a", "s", "t", "_", "3", "0", "_", "d", "a", "y", "s">>
s_last_90_days == <<"l", "a", "s", "t", "_", "9", "0", "_", "d", "a", "y", "s">>
s_this_month == <<"t", "h", "i", "s", "_", "m", "o", "n", "t", "h">>
s_last_month == <<"l", "a", "s", "t", "_", "m", "o", "n", "t", "h">>
s_this_year == <<"t", "h", "i", "s", "_", "y", "e", "a", "r">>
s_last_year == <<"l", "a", "s", "t", "_", "y", "e", "a", "r">>

s_category == <<"c", "a", "t", "e", "g", "o", "r", "y">>

ALLOWED_TOOLS ==
    {s_none, s_get_latest, s_sum_by_merchant, s_sum_by_category, s_top_transactions,
     s_group_by_month, s_outliers_large, s_recurring_merchants, s_merchant_breakdown,
     s_category_trend}

PERIODS ==
    {s_last_7_days, s_last_30_days, s_last_90_days, s_this_month, s_last_month,
     s_this_year, s_last_year}

\* DATE_RE.match(s): ^\d{4}-\d{2}-\d{2}$
DATE_RE(s) ==
    /\ Len(s) = 10
    /\ s[5] = "-"
    /\ s[8] = "-"
    /\ \A p \in {1, 2, 3, 4, 6, 7, 9, 10} : IsDigit(s[p])

\* the (start, end) pair of a period token on the day `today`
PeriodRange(period, today) ==
    CASE period = s_last_7_days -> <<MinusDays(today, 6), today>>
      [] period = s_last_30_days -> <<MinusDays(today, 29), today>>
      [] period = s_last_90_days -> <<MinusDays(today, 89), today>>
      [] period = s_this_month -> <<month_start(today), today>>
      [] period = s_last_month -> prev_month_range(today)
      [] period = s_this_year -> <<[y |-> today.y, m |-> 1, d |-> 1], today>>
      [] period = s_last_year ->
            <<[y |-> today.y - 1, m |-> 1, d |-> 1], [y |-> today.y - 1, m |-> 12, d |-> 31]>>

\* expand_period(args, today)
expand_period(args, today) ==
    LET period == Get(args, "period", Null)
    IN IF ~Truthy(period) THEN args
       ELSE IF ~(period.k = "str" /\ period.s \in PERIODS) THEN Put(args, "period", Null)
       ELSE LET r == PeriodRange(period.s, today)
            IN Pop(Put(Put(args, "start_date", Str(Strftime(r[1]))),
                       "end_date", Str(Strftime(r[2]))), "period")

\* The closures of validate_plan work on st = [args, errors], the two local
\* variables they share.

Err(msg, name) == [msg |-> msg, name |-> name]

\* validate_plan.clamp_int
clamp_int(st, name, default, lo, hi) ==
    LET c == PyInt(Get(st.args, name, IntV(default)))
        v == IF c.ok THEN c.i ELSE default
    IN [args |-> Put(st.args, name, IntV(ClampInt(v, lo, hi))),
        errors |-> IF c.ok THEN st.errors ELSE Append(st.errors, Err("must be int", name))]

\* validate_plan.clamp_float
clamp_float(st, name, default, lo, hi) ==
    LET c == PyFloat(Get(st.args, name, FloatV(default)))
        v == IF c.ok THEN c.v ELSE FloatV(default)
    IN [args |-> Put(st.args, name, ClampFloat(v, lo, hi)),
        errors |-> IF c.ok THEN st.errors ELSE Append(st.errors, Err("must be number", name))]

\* validate_plan.norm_str
norm_str(st, name, max_len) ==
    LET v0 == Get(st.args, name, Str(<<>>))
        v1 == IF v0.k = "null" THEN Str(<<>>) ELSE v0
        v2 == Strip(PyStr(v1))
        v3 == IF Len(v2) > max_len THEN Prefix(v2, max_len) ELSE v2
    IN [args |-> Put(st.args, name, Str(v3)), errors |-> st.errors]

\* a date_field that keeps every non-empty value without matching it
date_field_NoMatch(st, name) ==
    LET v == Get(st.args, name, Null)
    IN IF v = Null \/ v = Str(<<>>)
       THEN [args |-> Put(st.args, name, Null), errors |-> st.errors]
       ELSE [args |-> Put(st.args, name, Str(Strip(PyStr(v)))), errors |-> st.errors]

\* validate_plan.date_field
date_field(st, name) ==
    LET v == Get(st.args, name, Null)
    IN IF v = Null \/ v = Str(<<>>)
       THEN [args |-> Put(st.args, name, Null), errors |-> st.errors]
       ELSE LET s == Strip(PyStr(v))
            IN IF ~DATE_RE(s)
               THEN [args |-> Put(st.args, name, Null),
                     errors |-> Append(st.errors, Err("must be YYYY-MM-DD", name))]
               ELSE [args |-> Put(st.args, name, Str(s)), errors |-> st.errors]

\* the result of validate_plan: (ok, {tool, args}, errors), or an exception
Returned(tool, st) ==
    [raised |-> FALSE,
     ok |-> (tool # s_none) /\ st.errors = <<>>,
     cleaned |-> [tool |-> tool, args |-> st.args],
     errors |-> st.errors]

Raised == [raised |-> TRUE, ok |-> FALSE, cleaned |-> [tool |-> s_none, args |-> EmptyMap], errors |-> <<>>]

\* a rejection that forces the tool to none and keeps the args
Rejected_KeepsArgs(st, name) ==
    Returned(s_none, [args |-> st.args, errors |-> Append(st.errors, Err("required", name))])

\* a required string field is empty: the plan is forced to none
Rejected(st, name) ==
    Returned(s_none, [args |-> EmptyMap, errors |-> Append(st.errors, Err("required", name))])

\* validate_plan, lines 225-303: the tool-specific branch and the return
ToolBranch(tool, st) ==
    CASE tool = s_get_latest ->
            Returned(tool, clamp_int(clamp_int(st, "n", 1, 1, 10), "offset", 0, 0, 50))
      [] tool = s_sum_by_merchant ->
            LET a == norm_str(st, "merchant_substr", 60)
            IN IF ~Truthy(a.args["merchant_substr"]) THEN Rejected(a, "merchant_substr")
               ELSE Returned(tool, date_field(date_field(a, "start_date"), "end_date"))
      [] tool = s_sum_by_category ->
            LET a == norm_str(st, "category", 60)
            IN IF ~Truthy(a.args["category"]) THEN Rejected(a, "category")
               ELSE Returned(tool, date_field(date_field(a, "start_date"), "end_date"))
      [] tool = s_top_transactions ->
            LET a == date_field(date_field(clamp_int(st, "n", 10, 1, 50), "start_date"), "end_date")
                b == IF "category" \in DOMAIN a.args
                     THEN LET n == norm_str(a, "category", 60)
                          IN IF n.args["category"] = Str(<<>>)
                             THEN [n EXCEPT !.args = Put(n.args, "category", Null)] ELSE n
                     ELSE a
                c == IF "merchant_substr" \in DOMAIN b.args
                     THEN LET n == norm_str(b, "merchant_substr", 60)
                          IN IF n.args["merchant_substr"] = Str(<<>>)
                             THEN [n EXCEPT !.args = Put(n.args, "merchant_substr", Null)] ELSE n
                     ELSE b
            IN Returned(tool, c)
      [] tool = s_group_by_month ->
            LET a == norm_str(date_field(date_field(st, "start_date"), "end_date"), "field", 30)
                b == clamp_int(a, "top_k", 5, 1, 10)
                f == Get(b.args, "field", Null)
                c == IF f = Str(<<>>) \/ f = Null
                     THEN [b EXCEPT !.args = Put(b.args, "field", Str(s_category))] ELSE b
            IN Returned(tool, c)
      [] tool = s_outliers_large ->
            LET a == clamp_float(st, "min_amount", 100 * FloatScale, 0, 1000000 * FloatScale)
            IN Returned(tool, date_field(date_field(a, "start_date"), "end_date"))
      [] tool = s_recurring_merchants ->
            Returned(tool, clamp_int(clamp_int(st, "months", 6, 1, 24), "min_count", 3, 2, 20))
      [] tool = s_merchant_breakdown ->
            LET a == norm_str(norm_str(st, "merchant_substr", 60), "by", 30)
            IN IF ~Truthy(a.args["merchant_substr"]) THEN Rejected(a, "merchant_substr")
               ELSE LET by == Get(a.args, "by", Null)
                        b == IF by = Str(<<>>) \/ by = Null
                             THEN [a EXCEPT !.args = Put(a.args, "by", Str(s_category))] ELSE a
                    IN Returned(tool, date_field(date_field(b, "start_date"), "end_date"))
      [] tool = s_category_trend ->
            LET a == clamp_int(norm_str(st, "category", 60), "months", 6, 1, 24)
            IN IF ~Truthy(a.args["category"]) THEN Rejected(a, "category")
               ELSE Returned(tool, a)
      [] OTHER -> Returned(tool, st)

\* validate_plan, lines 178-182: period normalisation and expansion
PeriodStep(args, today) ==
    IF "period" \in DOMAIN args
    THEN LET v == args["period"]
             p == IF v # Null THEN Str(Strip(PyStr(v))) ELSE Null
         IN expand_period(Put(args, "period", p), today)
    ELSE args

\* validate_plan(plan), with the day _today_hel() returns
validate_plan(plan, today) ==
    LET t0 == Get(plan, "tool", Null)
        t1 == IF Truthy(t0) THEN t0 ELSE Str(s_none)
        a0 == Get(plan, "args", Null)
        a1 == IF Truthy(a0) THEN a0 ELSE Obj(EmptyMap)
    IN IF t1.k # "str" THEN Raised
       ELSE LET tool == Strip(t1.s)
                known == tool \in ALLOWED_TOOLS
                e1 == IF known THEN <<>> ELSE <<Err("Unknown tool", "tool")>>
                tool2 == IF known THEN tool ELSE s_none
                a2 == IF known THEN a1 ELSE Obj(EmptyMap)
                isdict == a2.k = "obj"
                e2 == IF isdict THEN e1 ELSE Append(e1, Err("must be an object", "args"))
                a3 == IF isdict THEN a2.m ELSE EmptyMap
            IN ToolBranch(tool2, [args |-> PeriodStep(a3, today), errors |-> e2])

\* ------------------------------------------------------------------------
\* Router plans: the JSON objects parse_router_output can hand to
\* validate_plan
\* ------------------------------------------------------------------------

\* number of keys in the args mapping of an enumerated plan
MaxArgKeys == 2

Rep(c, n) == [p \in 1..n |-> c]

\* longer than max_len, with a blank as its max_len-th character
LongSpaced(max_len) == Rep("a", max_len - 1) \o <<" ", "b">>

\* longer than max_len, no blank
LongPlain(max_len) == Rep("a", max_len + 1)

IntInputs ==
    {Null, Bool(TRUE), IntV(-1), IntV(3), IntV(100), FloatV(29), NaN,
     Str(<<"5">>), Str(<<"x">>), List(1)}

FloatInputs ==
    {Null, IntV(5), FloatV(125), FloatV(-5), FloatV(20000000 * FloatScale), NaN, Inf(1),
     Str(<<"1", "2", ".", "5">>), Str(<<"x">>)}

StrInputs(max_len) ==
    {Null, Str(<<>>), Str(<<" ">>), Str(<<"a", "b">>), Str(<<" ", "a", "b", " ">>),
     Str(LongSpaced(max_len)), Str(LongPlain(max_len)), IntV(5), List(0)}

DateInputs ==
    {Null, Str(<<>>), Str(<<"2", "0", "2", "5", "-", "0", "1", "-", "3", "1">>),
     Str(<<" ", "2", "0", "2", "5", "-", "0", "1", "-", "3", "1", " ">>),
     Str(<<"2", "0", "2", "5", "-", "1", "-", "1">>), IntV(20250131)}

PeriodInputs ==
    {Str(p) : p \in PERIODS} \cup
    {Null, Str(<<>>), Str(<<" ", "l", "a", "s", "t", "_", "m", "o", "n", "t", "h", " ">>),
     Str(<<"L", "a", "s", "t", "_", "M", "o", "n", "t", "h">>),
     Str(<<"y", "e", "s", "t", "e", "r", "d", "a", "y">>), IntV(5)}

\* the values the router may give an argument
ArgInputs(key) ==
    CASE key \in {"n", "offset", "top_k", "months", "min_count"} -> IntInputs
      [] key = "min_amount" -> FloatInputs
      [] key \in {"merchant_substr", "category"} -> StrInputs(60)
      [] key \in {"field", "by"} -> StrInputs(30)
      [] key \in {"start_date", "end_date"} -> DateInputs
      [] key = "period" -> PeriodInputs
      [] key = "foo" -> {IntV(1)}

\* the parameters of the tool functions (ai_tools.py), besides the table
ToolParams(tool) ==
    CASE tool = s_get_latest -> {"n", "offset"}
      [] tool = s_sum_by_merchant -> {"merchant_substr", "start_date", "end_date"}
      [] tool = s_sum_by_category -> {"category", "start_date", "end_date"}
      [] tool = s_top_transactions -> {"n", "start_date", "end_date", "category", "merchant_substr"}
      [] tool = s_group_by_month -> {"start_date", "end_date", "field", "top_k"}
      [] tool = s_outliers_large -> {"min_amount", "start_date", "end_date"}
      [] tool = s_recurring_merchants -> {"months", "min_count"}
      [] tool = s_merchant_breakdown -> {"merchant_substr", "by", "start_date", "end_date"}
      [] tool = s_category_trend -> {"category", "months"}
      [] OTHER -> {}

\* the parameters without a default value
RequiredParams(tool) ==
    CASE tool \in {s_sum_by_merchant, s_merchant_breakdown} -> {"merchant_substr"}
      [] tool \in {s_sum_by_category, s_category_trend} -> {"category"}
      [] OTHER -> {}

\* the keys the router may emit for a tool: its arguments, a period, and a
\* key no tool knows
RouterKeys(tool) == ToolParams(tool) \cup {"period", "foo"}

\* every key the router may emit
AllKeys == UNION {RouterKeys(tool) : tool \in ALLOWED_TOOLS}

RECURSIVE ArgMaps(_, _, _)
\* all args mappings over at most `most` keys of `keys`, with the values
\* `inputs` gives each key
ArgMaps(keys, most, inputs) ==
    IF keys = {} \/ most = 0 THEN {EmptyMap}
    ELSE LET key == CHOOSE k \in keys : TRUE
         IN ArgMaps(keys \ {key}, most, inputs)
            \cup {Put(m, key, v) : m \in ArgMaps(keys \ {key}, most - 1, inputs), v \in inputs[key]}

\* what the router may put under "tool" besides an allowed name
OddTools ==
    {Null, Bool(TRUE), Bool(FALSE), IntV(0), IntV(5), FloatV(25), List(0), List(1),
     Obj(EmptyMap), Obj([x \in {"a"} |-> IntV(1)]), Str(<<>>), Str(<<"f", "o", "o">>)}

\* what the router may put under "args" besides a mapping
OddArgs ==
    {Null, Bool(TRUE), Bool(FALSE), IntV(0), IntV(1), Str(<<>>), Str(<<"a", "b">>), List(0), List(1)}

PlanOf(tool, args) == [x \in {"tool", "args"} |-> IF x = "tool" THEN tool ELSE args]

\* plans with a tool or args that is missing or of another JSON type
OddPlans ==
    {EmptyMap}
    \cup {[x \in {"tool"} |-> t] : t \in OddTools \cup {Str(n) : n \in ALLOWED_TOOLS}}
    \cup {[x \in {"args"} |-> a] : a \in OddArgs}
    \cup {PlanOf(t, a) : t \in OddTools, a \in OddArgs \cup {Obj([x \in {"n"} |-> IntV(3)])}}
    \cup {PlanOf(Str(n), a) : n \in ALLOWED_TOOLS, a \in OddArgs}
    \cup {PlanOf(Str(<<" ">> \o s_get_latest \o <<" ">>), Obj(EmptyMap))}

\* the args mappings given to validate_plan for a tool
ArgInputMaps(tool) == ArgMaps(RouterKeys(tool), MaxArgKeys, [key \in AllKeys |-> ArgInputs(key)])

\* the days the clock may show (_today_hel)
Todays == {[y |-> 2025, m |-> 6, d |-> 15], [y |-> 2024, m |-> 1, d |-> 31]}

\* the values the router gives an argument in a chat turn: one the validator
\* keeps, one it replaces, and for a period an allowed token, a token in
\* another case and null
TurnArgInputs(key) ==
    CASE key \in {"n", "offset", "top_k", "months", "min_count"} -> {IntV(3), IntV(100), Str(<<"x">>)}
      [] key = "min_amount" -> {FloatV(125), NaN}
      [] key \in {"merchant_substr", "category"} -> {Str(<<"a", "b">>), Str(<<>>), Str(LongSpaced(60))}
      [] key \in {"field", "by"} -> {Str(s_category), Str(<<"a", "b">>)}
      [] key \in {"start_date", "end_date"} ->
            {Str(<<"2", "0", "2", "5", "-", "0", "1", "-", "3", "1">>),
             Str(<<"2", "0", "2", "5", "-", "1", "-", "1">>)}
      [] key = "period" ->
            {Str(s_last_month), Str(<<"L", "a", "s", "t", "_", "M", "o", "n", "t", "h">>), Null}
      [] key = "foo" -> {IntV(1)}

\* the args mappings the router emits in a chat turn: empty, or one key
TurnArgMaps(tool) ==
    {EmptyMap} \cup UNION {{Put(EmptyMap, key, v) : v \in TurnArgInputs(key)} : key \in RouterKeys(tool)}

RouterPlans ==
    {EmptyMap}
    \cup {[x \in {"tool"} |-> t] : t \in OddTools \cup {Str(n) : n \in ALLOWED_TOOLS}}
    \cup {PlanOf(Str(s_get_latest), a) : a \in OddArgs}
    \cup UNION {{PlanOf(Str(n), Obj(m)) : m \in TurnArgMaps(n)} : n \in ALLOWED_TOOLS}

\* ------------------------------------------------------------------------
\* The transaction table (a DataFrame: its columns and its rows)
\* ------------------------------------------------------------------------

\* rows of an enumerated table
MaxRows == 2

NaT == -1

BadTime == -1

\* pd.DataFrame(): no columns, no rows (app/main.py, before any import)
EmptyFrame == [cols |-> {}, rows |-> <<>>]

\* the columns of a table the ingestion pipeline produced
PipelineCols == {"date", "time", "merchant", "amount", "adjusted_amount", "category"}

\* date: a day number or NaT; time: a time of day or a text that is none
RowInputs == {[date |-> 1, time |-> 1], [date |-> 2, time |-> BadTime], [date |-> NaT, time |-> 0]}

TableInputs ==
    {EmptyFrame} \cup
    {[cols |-> PipelineCols, rows |-> r] : r \in UNION {[1..n -> RowInputs] : n \in 0..MaxRows}}

\* df.empty
IsEmpty(df) == df.cols = {} \/ Len(df.rows) = 0

\* a datetime: the day and the time within it
DtOf(df, row) ==
    IF row.date = NaT THEN [nat |-> TRUE, day |-> 0, time |-> 0]
    ELSE [nat |-> FALSE, day |-> row.date,
          time |-> IF "time" \in df.cols /\ row.time # BadTime THEN row.time ELSE 0]

\* ensure_dt(df): a copy with the column dt = date + time
ensure_dt(df) ==
    [cols |-> df.cols \cup {"dt"},
     rows |-> [p \in 1..Len(df.rows) |-> [date |-> df.rows[p].date, time |-> df.rows[p].time,
                                           dt |-> DtOf(df, df.rows[p])]]]

\* a < b on datetimes; every comparison with NaT is False
DtLess(a, b) ==
    /\ ~a.nat
    /\ ~b.nat
    /\ (a.day < b.day \/ (a.day = b.day /\ a.time < b.time))

Injections(n) == {f \in [1..n -> 1..n] : \A p, q \in 1..n : f[p] = f[q] => p = q}

\* sort_values("dt", ascending=False, na_position="last"): the orders the
\* sort may return; rows with equal dt come in any order (quicksort)
SortedByDtDesc(rows) ==
    {[p \in 1..Len(rows) |-> rows[f[p]]] : f \in
        {g \in Injections(Len(rows)) :
            \A p, q \in 1..Len(rows) :
                p < q => /\ ~DtLess(rows[g[p]].dt, rows[g[q]].dt)
                         /\ (rows[g[p]].dt.nat => rows[g[q]].dt.nat)}}

\* a pick_amount_col that always takes the column amount
pick_amount_col_Amount(df) == "amount"

\* pick_amount_col(df)
pick_amount_col(df) == IF "adjusted_amount" \in df.cols THEN "adjusted_amount" ELSE "amount"

\* ------------------------------------------------------------------------
\* app/ai_assistant.py: the order-query fast path
\* ------------------------------------------------------------------------

\* the letter a-umlaut
Auml == "ae"

UpperChars == <<"A", "B", "C", "D", "E", "F", "G", "H", "I", "J", "K", "L", "M", "N", "O", "P", "Q", "R", "S", "T", "U", "V", "W", "X", "Y", "Z">>

LowerChars == <<"a", "b", "c", "d", "e", "f", "g", "h", "i", "j", "k", "l", "m", "n", "o", "p", "q", "r", "s", "t", "u", "v", "w", "x", "y", "z">>

LowerChar(c) ==
    IF \E p \in 1..26 : UpperChars[p] = c
    THEN LowerChars[CHOOSE p \in 1..26 : UpperChars[p] = c] ELSE c

\* str.lower()
Lower(s) == [p \in 1..Len(s) |-> LowerChar(s[p])]

\* sub in s
Contains(s, sub) ==
    \E p \in 0..(Len(s) - Len(sub)) : SubSeq(s, p + 1, p + Len(sub)) = sub

k_kolmanneksi == <<"k", "o", "l", "m", "a", "n", "n", "e", "k", "s", "i">>
k_third == <<"t", "h", "i", "r", "d">>
k_toiseksi == <<"t", "o", "i", "s", "e", "k", "s", "i">>
k_second == <<"s", "e", "c", "o", "n", "d">>
k_edellinen == <<"e", "d", "e", "l", "l", "i", "n", "e", "n">>
k_previous == <<"p", "r", "e", "v", "i", "o", "u", "s">>
k_sita_edellinen == <<"s", "i", "t", Auml, " ", "e", "d", "e", "l", "l", "i", "n", "e", "n">>

\* the keyword list of render_ai_assistant_tab
OrderKeywords ==
    {<<"v", "i", "i", "m", "e", "i", "s", "i", "n">>,
     <<"u", "u", "s", "i", "n">>,
     <<"v", "i", "i", "m", "e", "i", "n", "e", "n">>,
     <<"v", "i", "k", "a">>,
     <<"t", "o", "i", "s", "e", "k", "s", "i", " ", "v", "i", "i", "m", "e", "i", "n", "e", "n">>,
     <<"t", "o", "i", "s", "e", "k", "s", "i", " ", "u", "u", "s", "i", "n">>,
     <<"k", "o", "l", "m", "a", "n", "n", "e", "k", "s", "i", " ", "v", "i", "i", "m", "e", "i", "n", "e", "n">>,
     <<"k", "o", "l", "m", "a", "n", "n", "e", "k", "s", "i", " ", "u", "u", "s", "i", "n">>,
     k_edellinen,
     <<"s", "e", "u", "r", "a", "a", "v", "a">>,
     k_sita_edellinen,
     <<"s", "i", "t", Auml, " ", "s", "e", "u", "r", "a", "a", "v", "a">>,
     <<"l", "a", "t", "e", "s", "t">>,
     <<"n", "e", "w", "e", "s", "t">>,
     <<"l", "a", "s", "t">>,
     <<"s", "e", "c", "o", "n", "d", " ", "l", "a", "s", "t">>,
     <<"t", "h", "i", "r", "d", " ", "l", "a", "s", "t">>,
     k_previous,
     <<"n", "e", "x", "t">>}

\* is_order_query
is_order_query(query_lower) == \E keyword \in OrderKeywords : Contains(query_lower, keyword)

\* format_tx(row, amount_col): the fields of the row the text shows
format_tx(row, amount_col) ==
    [dt_str |-> IF ~row.dt.nat THEN <<row.dt.day, row.dt.time>> ELSE <<row.date>>,
     amount_col |-> amount_col]

NoTx == [dt_str |-> <<>>, amount_col |-> ""]

\* a handle_order_query that knows no third
OrderIndex_NoThird(query_lower) ==
    IF \/ Contains(query_lower, k_kolmanneksi)
       \/ Contains(query_lower, k_third)
       \/ Contains(query_lower, k_toiseksi)
       \/ Contains(query_lower, k_second)
       \/ Contains(query_lower, k_edellinen)
       \/ Contains(query_lower, k_previous) THEN 1
    ELSE 0

\* a handle_order_query that reads the newest row whatever the keyword
OrderIndex_Newest(query_lower) == 0

\* the row index handle_order_query reads
OrderIndex(query_lower) ==
    IF Contains(query_lower, k_kolmanneksi) \/ Contains(query_lower, k_third) THEN 2
    ELSE IF \/ Contains(query_lower, k_toiseksi)
            \/ Contains(query_lower, k_second)
            \/ Contains(query_lower, k_edellinen)
            \/ Contains(query_lower, k_previous)
            \/ Contains(query_lower, k_sita_edellinen) THEN 1
    ELSE 0

\* handle_order_query(df_sorted, query_lower)
handle_order_query(df_sorted, query_lower) ==
    LET amount_col == pick_amount_col(df_sorted)
        idx == OrderIndex(query_lower)
    IN IF Len(df_sorted.rows) <= idx
       THEN [kind |-> "not_enough", idx |-> idx, count |-> Len(df_sorted.rows), tx |-> NoTx]
       ELSE [kind |-> "row", idx |-> idx, count |-> Len(df_sorted.rows),
             tx |-> format_tx(df_sorted.rows[idx + 1], amount_col)]

\* what the user may type
QueryInputs ==
    {<<"w", "h", "a", "t", " ", "w", "a", "s", " ", "m", "y", " ", "s", "e", "c", "o", "n", "d", "-", "t", "o", "-", "l", "a", "s", "t", " ", "t", "r", "a", "n", "s", "a", "c", "t", "i", "o", "n">>,
     <<"L", "a", "t", "e", "s", "t", " ", "p", "u", "r", "c", "h", "a", "s", "e">>,
     <<"T", "H", "I", "R", "D", " ", "L", "A", "S", "T">>,
     <<"h", "o", "w", " ", "m", "u", "c", "h", " ", "a", "t", " ", "p", "r", "i", "s", "m", "a">>}

\* ------------------------------------------------------------------------
\* ai_assistant_agent.py
\* ------------------------------------------------------------------------

\* the names TOOL_REGISTRY maps to a tool function
TOOL_REGISTRY == ALLOWED_TOOLS \ {s_none}

\* summary.label of a tool's result
ToolLabel(tool) == IF tool = s_get_latest THEN <<"l", "a", "t", "e", "s", "t">> ELSE tool

\* fn(df, **args): Python binds the keywords to the parameters of fn and
\* raises TypeError for a keyword fn does not have or a required one missing
CallTool(tool, df, args) ==
    IF DOMAIN args \subseteq ToolParams(tool) /\ RequiredParams(tool) \subseteq DOMAIN args
    THEN [raised |-> FALSE,
          result |-> [summary |-> [label |-> ToolLabel(tool)],
                      meta |-> [amount_col |-> pick_amount_col(df)]]]
    ELSE [raised |-> TRUE, result |-> <<>>]

\* the execution of a plan that names no tool: {"tool": "none", "result": None}
NullExecution == [tool |-> s_none, result |-> <<>>]

\* an execute_plan that indexes the registry (TOOL_REGISTRY[tool]) and so
\* raises KeyError for a name that is not in it
execute_plan_Indexed(df, plan) ==
    IF plan.tool = s_none
    THEN [raised |-> FALSE, called |-> FALSE, execution |-> NullExecution]
    ELSE IF plan.tool \notin TOOL_REGISTRY
         THEN [raised |-> TRUE, called |-> FALSE, execution |-> <<>>]
         ELSE LET c == CallTool(plan.tool, df, plan.args)
              IN IF c.raised THEN [raised |-> TRUE, called |-> TRUE, execution |-> <<>>]
                 ELSE [raised |-> FALSE, called |-> TRUE,
                       execution |-> [tool |-> plan.tool, args |-> plan.args, result |-> c.result]]

\* execute_plan(df, plan): the execution mapping, whether the tool function
\* was called, and whether the call raised
execute_plan(df, plan) ==
    IF plan.tool = s_none \/ plan.tool \notin TOOL_REGISTRY
    THEN [raised |-> FALSE, called |-> FALSE, execution |-> NullExecution]
    ELSE LET c == CallTool(plan.tool, df, plan.args)
         IN IF c.raised THEN [raised |-> TRUE, called |-> TRUE, execution |-> <<>>]
            ELSE [raised |-> FALSE, called |-> TRUE,
                  execution |-> [tool |-> plan.tool, args |-> plan.args, result |-> c.result]]

\* an answer_with_tools without the test for tool none
IsFallbackPlan_Never(checked) == FALSE

\* answer_with_tools, line 95: the test that returns mode "fallback"
IsFallbackPlan(checked) == checked.cleaned.tool = s_none

\* an answer_with_tools that hands the router's plan to execute_plan as parsed
PlanToExecute_Raw(raw, checked) ==
    [tool |-> checked.cleaned.tool,
     args |-> IF "args" \in DOMAIN raw /\ raw["args"].k = "obj" THEN raw["args"].m ELSE EmptyMap]

\* answer_with_tools, line 98: the plan handed to execute_plan
PlanToExecute(raw, checked) == checked.cleaned

\* answer_with_tools, line 96
FallbackResult(checked) ==
    [mode |-> "fallback", plan |-> checked.cleaned, errors |-> checked.errors, answer |-> <<>>]

\* answer_with_tools, line 101
ToolsResult(checked, execution, answer) ==
    [mode |-> "tools", plan |-> checked.cleaned, execution |-> execution, answer |-> answer]

\* a tools attempt without the except clause
OnToolsFailure_Uncaught == "crashed"

\* render_ai_assistant_tab, lines 461-466: `except Exception` around the
\* tools attempt; the stage the turn continues with
OnToolsFailure == "fallback"

\* a chat call that is made again after it failed
OnChatFailure_Retry == "fallback"

\* render_ai_assistant_tab, lines 590-604: the handlers around the chat call
OnChatFailure == "idle"

\* what an LLM call may return (get_llm_response strips its text)
LLMTexts == {<<>>, <<"o", "k">>}

\* ------------------------------------------------------------------------
\* State
\* ------------------------------------------------------------------------

\* user questions in a session
MaxTurns == 2

VARIABLES
    vplan,      \* validation: the plan given to validate_plan
    vtoday,     \* validation: the day
    vstage,     \* validation: "input", "validated", "revalidated"
    vfirst,     \* validation: result of validate_plan(vplan)
    vsecond,    \* validation: result of validate_plan(vfirst.cleaned)
    table,      \* st.session_state.df
    today,      \* the day _today_hel() returns
    turn,       \* questions asked so far
    pc,         \* stage of the current turn
    history,    \* st.session_state.ai_chat_history (role and origin of each message)
    query,      \* user_input
    raw,        \* run_router: parse_router_output(text)
    routed,     \* run_router: validate_plan(raw)
    checked,    \* answer_with_tools: validate_plan(plan)
    executed,   \* the plan handed to execute_plan
    execution,  \* what execute_plan returned
    result,     \* what answer_with_tools returned
    answer,     \* what the fast path returned
    events,     \* the calls of the turn, in order
    failed,     \* the stages of the turn that raised
    ptoday,     \* period: the day given to expand_period
    pargs,      \* period: the args given to expand_period
    pstage,     \* period: "input", "expanded", "again"
    pfirst,     \* period: result of expand_period(pargs, ptoday)
    psecond,    \* period: result of a second expand_period(pargs, ptoday)
    xgiven,     \* tools: the table as the caller loaded it
    xtable,     \* tools: the table the caller holds
    xplan,      \* tools: the plan of the call
    xout,       \* tools: what the call did and returned
    jtext,      \* parser: the text of the Router LLM
    jplan       \* parser: what parse_router_output did with it

vvars == <<vplan, vtoday, vstage, vfirst, vsecond>>

tvars == <<table, today, turn, pc, history, query, raw, routed, checked, executed,
           execution, result, answer, events, failed>>

pvars == <<ptoday, pargs, pstage, pfirst, psecond>>

xvars == <<xgiven, xtable, xplan, xout>>

jvars == <<jtext, jplan>>

vars == <<vplan, vtoday, vstage, vfirst, vsecond, table, today, turn, pc, history, query,
          raw, routed, checked, executed, execution, result, answer, events, failed,
          ptoday, pargs, pstage, pfirst, psecond, xgiven, xtable, xplan, xout, jtext, jplan>>

\* no expand_period on its own
PIdle ==
    /\ ptoday = [y |-> 1, m |-> 1, d |-> 1]
    /\ pargs = EmptyMap
    /\ pstage = "off"
    /\ pfirst = EmptyMap
    /\ psecond = EmptyMap

\* no parse_router_output on its own
JIdle ==
    /\ jtext = <<>>
    /\ jplan = <<>>

\* no execute_plan on its own
XIdle ==
    /\ xgiven = EmptyFrame
    /\ xtable = EmptyFrame
    /\ xplan = EmptyMap
    /\ xout = <<>>

NoResult == Raised

NoAnswer == [kind |-> "none", idx |-> 0, count |-> 0, tx |-> NoTx]

\* a cleaned plan {tool, args} as the mapping validate_plan reads
AsPlan(cleaned) == PlanOf(Str(cleaned.tool), Obj(cleaned.args))

\* the variables of a turn before the question arrives
TurnReset ==
    /\ raw' = EmptyMap
    /\ routed' = NoResult
    /\ checked' = NoResult
    /\ executed' = <<>>
    /\ execution' = <<>>
    /\ result' = <<>>
    /\ answer' = NoAnswer
    /\ events' = <<>>
    /\ failed' = {}

\* ------------------------------------------------------------------------
\* validate_plan on its own
\* ------------------------------------------------------------------------

VInit ==
    /\ \/ vplan \in OddPlans
       \/ \E n \in ALLOWED_TOOLS : \E m \in ArgInputMaps(n) : vplan = PlanOf(Str(n), Obj(m))
    /\ vtoday \in Todays
    /\ vstage = "input"
    /\ vfirst = NoResult
    /\ vsecond = NoResult
    /\ table = EmptyFrame
    /\ today \in Todays
    /\ today = vtoday
    /\ turn = 0
    /\ pc = "idle"
    /\ history = <<>>
    /\ query = <<>>
    /\ raw = EmptyMap
    /\ routed = NoResult
    /\ checked = NoResult
    /\ executed = <<>>
    /\ execution = <<>>
    /\ result = <<>>
    /\ answer = NoAnswer
    /\ events = <<>>
    /\ failed = {}
    /\ PIdle
    /\ JIdle
    /\ XIdle

\* validate_plan(plan)
Validate ==
    /\ vstage = "input"
    /\ vfirst' = validate_plan(vplan, vtoday)
    /\ vstage' = "validated"
    /\ UNCHANGED <<vplan, vtoday, vsecond>>
    /\ UNCHANGED tvars
    /\ UNCHANGED <<pvars, xvars, jvars>>

\* validate_plan(cleaned), when the first call returned
Revalidate ==
    /\ vstage = "validated"
    /\ ~vfirst.raised
    /\ vsecond' = validate_plan(AsPlan(vfirst.cleaned), vtoday)
    /\ vstage' = "revalidated"
    /\ UNCHANGED <<vplan, vtoday, vfirst>>
    /\ UNCHANGED tvars
    /\ UNCHANGED <<pvars, xvars, jvars>>

VNext == Validate \/ Revalidate

SpecValidate == VInit /\ [][VNext]_vars

\* ------------------------------------------------------------------------
\* A chat session: render_ai_assistant_tab, one run per question
\* ------------------------------------------------------------------------

Init ==
    /\ vplan = EmptyMap
    /\ vtoday \in Todays
    /\ vstage = "off"
    /\ vfirst = NoResult
    /\ vsecond = NoResult
    /\ table \in TableInputs
    /\ today = vtoday
    /\ turn = 0
    /\ pc = "idle"
    /\ history = <<>>
    /\ query = <<>>
    /\ raw = EmptyMap
    /\ routed = NoResult
    /\ checked = NoResult
    /\ executed = <<>>
    /\ execution = <<>>
    /\ result = <<>>
    /\ answer = NoAnswer
    /\ events = <<>>
    /\ failed = {}
    /\ PIdle
    /\ JIdle
    /\ XIdle

\* a message of the history: its role, the stage that wrote its content and
\* the question it belongs to
Msg(role, origin, t) == [role |-> role, origin |-> origin, turn |-> t]

\* a failure handler that leaves the history as it is
PopUser_Keep(h) == h

\* ai_chat_history.pop() when the last message is the user's
PopUser(h) == IF h # <<>> /\ h[Len(h)].role = "user" THEN SubSeq(h, 1, Len(h) - 1) ELSE h

\* lines 386-391: a question arrives and is added to the history
Submit ==
    /\ pc = "idle"
    /\ turn < MaxTurns
    /\ \E q \in QueryInputs : query' = q
    /\ turn' = turn + 1
    /\ history' = Append(history, Msg("user", "query", turn + 1))
    /\ pc' = "order_check"
    /\ TurnReset
    /\ UNCHANGED <<table, today>>
    /\ UNCHANGED vvars
    /\ UNCHANGED <<pvars, xvars, jvars>>

\* lines 393-420: the order-query check and the fast path
OrderCheck ==
    /\ pc = "order_check"
    /\ LET query_lower == Lower(query)
       IN IF is_order_query(query_lower) /\ ~IsEmpty(table) /\ "date" \in table.cols
          THEN /\ \E sorted \in SortedByDtDesc(ensure_dt(table).rows) :
                      answer' = handle_order_query(
                                    [cols |-> ensure_dt(table).cols, rows |-> sorted], query_lower)
               /\ history' = Append(history, Msg("assistant", "fast", turn))
               /\ events' = Append(events, "fast_path")
               /\ pc' = "idle"
          ELSE /\ pc' = "router"
               /\ UNCHANGED <<answer, history, events>>
    /\ UNCHANGED <<table, today, turn, query, raw, routed, checked, executed, execution,
                   result, failed>>
    /\ UNCHANGED vvars
    /\ UNCHANGED <<pvars, xvars, jvars>>

\* run_router: the Router LLM call raises
RouterFails ==
    /\ pc = "router"
    /\ events' = Append(events, "router_llm")
    /\ failed' = failed \cup {"router"}
    /\ pc' = OnToolsFailure
    /\ UNCHANGED <<table, today, turn, history, query, raw, routed, checked, executed,
                   execution, result, answer>>
    /\ UNCHANGED vvars
    /\ UNCHANGED <<pvars, xvars, jvars>>

\* run_router: the Router LLM call returns a text, parse_router_output reads
\* a plan from it and validate_plan cleans it
RunRouter ==
    /\ pc = "router"
    /\ \E plan \in RouterPlans :
          \E v \in {validate_plan(plan, today)} :
             /\ raw' = plan
             /\ routed' = v
             /\ events' = events \o <<"router_llm", "validate">>
             /\ IF v.raised
                THEN failed' = failed \cup {"validate"} /\ pc' = OnToolsFailure
                ELSE failed' = failed /\ pc' = "check"
    /\ UNCHANGED <<table, today, turn, history, query, checked, executed, execution,
                   result, answer>>
    /\ UNCHANGED vvars
    /\ UNCHANGED <<pvars, xvars, jvars>>

\* answer_with_tools, lines 93-96: the second validation; a plan without a
\* tool returns mode "fallback", which the caller takes to the fallback stage
Check ==
    /\ pc = "check"
    /\ \E v \in {validate_plan(AsPlan(routed.cleaned), today)} :
          /\ checked' = v
          /\ events' = Append(events, "validate")
          /\ IF v.raised
             THEN failed' = failed \cup {"validate"} /\ pc' = OnToolsFailure /\ result' = result
             ELSE /\ failed' = failed
                  /\ IF IsFallbackPlan(v)
                     THEN result' = FallbackResult(v) /\ pc' = "fallback"
                     ELSE result' = result /\ pc' = "execute"
    /\ UNCHANGED <<table, today, turn, history, query, raw, routed, executed, execution,
                   answer>>
    /\ UNCHANGED vvars
    /\ UNCHANGED <<pvars, xvars, jvars>>

\* answer_with_tools, line 98: execute_plan
Execute ==
    /\ pc = "execute"
    /\ \E plan \in {PlanToExecute(raw, checked)} : \E e \in {execute_plan(table, plan)} :
          /\ executed' = plan
          /\ execution' = e.execution
          /\ events' = events \o (IF e.called THEN <<"execute", "tool">> ELSE <<"execute">>)
          /\ IF e.raised
             THEN failed' = failed \cup {"execute"} /\ pc' = OnToolsFailure
             ELSE failed' = failed /\ pc' = "narrate"
    /\ UNCHANGED <<table, today, turn, history, query, raw, routed, checked, result, answer>>
    /\ UNCHANGED vvars
    /\ UNCHANGED <<pvars, xvars, jvars>>

\* run_narrator: the Narrator LLM call raises
NarratorFails ==
    /\ pc = "narrate"
    /\ events' = Append(events, "narrator_llm")
    /\ failed' = failed \cup {"narrator"}
    /\ pc' = OnToolsFailure
    /\ UNCHANGED <<table, today, turn, history, query, raw, routed, checked, executed,
                   execution, result, answer>>
    /\ UNCHANGED vvars
    /\ UNCHANGED <<pvars, xvars, jvars>>

\* answer_with_tools, lines 99-101, and lines 453-460 of the caller: the
\* Narrator's text is the answer unless it is blank
Narrate ==
    /\ pc = "narrate"
    /\ \E text \in LLMTexts :
          /\ result' = ToolsResult(checked, execution, text)
          /\ IF Strip(text) # <<>>
             THEN history' = Append(history, Msg("assistant", "tools", turn)) /\ pc' = "idle"
             ELSE history' = history /\ pc' = "fallback"
    /\ events' = Append(events, "narrator_llm")
    /\ UNCHANGED <<table, today, turn, query, raw, routed, checked, executed, execution,
                   answer, failed>>
    /\ UNCHANGED vvars
    /\ UNCHANGED <<pvars, xvars, jvars>>

\* lines 468-604: the RAG/summary fallback; its chat call raises or returns
\* a blank text (the question is taken back) or an answer
Fallback ==
    /\ pc = "fallback"
    /\ events' = Append(events, "chat_llm")
    /\ \/ /\ history' = PopUser(history)
          /\ failed' = failed \cup {"chat"}
          /\ pc' = OnChatFailure
       \/ \E text \in LLMTexts :
             /\ history' = IF Strip(text) = <<>> THEN PopUser(history)
                           ELSE Append(history, Msg("assistant", "chat", turn))
             /\ failed' = failed
             /\ pc' = "idle"
    /\ UNCHANGED <<table, today, turn, query, raw, routed, checked, executed, execution,
                   result, answer>>
    /\ UNCHANGED vvars
    /\ UNCHANGED <<pvars, xvars, jvars>>

Next ==
    \/ Submit
    \/ OrderCheck
    \/ RouterFails
    \/ RunRouter
    \/ Check
    \/ Execute
    \/ NarratorFails
    \/ Narrate
    \/ Fallback

Spec == Init /\ [][Next]_vars

\* ------------------------------------------------------------------------
\* Properties
\* ------------------------------------------------------------------------

IsLLMCall(e) == e \in {"router_llm", "narrator_llm", "chat_llm"}

\* the LLM calls of the turn, in order
LLMCalls == SelectSeq(events, IsLLMCall)

Happened(e) == \E p \in 1..Len(events) : events[p] = e

\* every e2 in the turn's calls comes after some e1
Precedes(e1, e2) ==
    \A p \in 1..Len(events) : events[p] = e2 => \E q \in 1..(p - 1) : events[q] = e1

\* the router's plan has an args mapping with the key
RouterGave(key) ==
    /\ "args" \in DOMAIN raw
    /\ raw["args"].k = "obj"
    /\ key \in DOMAIN raw["args"].m

IsDateStr(v) == v.k = "str" /\ DATE_RE(v.s)

\* C1: validate_plan never raises: for every plan (tool and args missing or
\* of any JSON type) it returns (ok, cleaned, errors)
C1_NeverRaises == vstage # "input" => ~vfirst.raised

\* C2: in every cleaned plan with a tool, every key of args is a parameter
\* of that tool, and no tool call fails on the arguments it is handed
C2_ArgsInSchema ==
    /\ (~checked.raised /\ checked.cleaned.tool # s_none)
          => DOMAIN checked.cleaned.args \subseteq ToolParams(checked.cleaned.tool)
    /\ "execute" \notin failed

\* C3: when the router's args had a period key, the args handed to a tool
\* have none, and a supplied token has become start_date and end_date
C3_PeriodResolved ==
    (Happened("tool") /\ RouterGave("period")) =>
        /\ "period" \notin DOMAIN executed.args
        /\ raw["args"].m["period"] # Null =>
              /\ "start_date" \in DOMAIN executed.args
              /\ "end_date" \in DOMAIN executed.args
              /\ IsDateStr(executed.args["start_date"])
              /\ IsDateStr(executed.args["end_date"])

\* C4 as stated: a plan is executed only when validating the router's plan
\* gave ok (a tool and no error)
C4_ExecutedOnlyIfOk == Happened("execute") => routed.ok

\* C4: a plan is executed exactly when the cleaned plan names a tool, whether
\* or not errors were recorded; with tool none the turn goes to the fallback
\* stage and no tool runs
C4_ExecutedIffTool ==
    /\ (Happened("execute") \/ pc = "execute") =>
          /\ ~routed.raised /\ routed.cleaned.tool # s_none
          /\ ~checked.raised /\ checked.cleaned.tool # s_none
    /\ (~routed.raised /\ pc \notin {"check"}) =>
          IF routed.cleaned.tool # s_none
          THEN (Happened("execute") \/ pc = "execute")
          ELSE /\ ~Happened("execute") /\ ~Happened("tool") /\ ~Happened("narrator_llm")
               /\ pc \in {"fallback", "idle"}
               /\ result.mode = "fallback"

C4_Witness == Happened("tool") /\ routed.errors # <<>> /\ pc = "narrate"

\* C5: validating a cleaned plan returns an equal cleaned plan
C5_Idempotent == vstage = "revalidated" => (~vsecond.raised /\ vsecond.cleaned = vfirst.cleaned)

\* a sorts before b when the table is sorted by dt descending, NaT last
SortsBefore(a, b) == (~a.nat /\ b.nat) \/ DtLess(b, a)

\* the row is one that stands at index idx of the table sorted by dt descending
AtSortedIndex(df, row, idx) ==
    LET rows == ensure_dt(df).rows
    IN /\ \E p \in 1..Len(rows) : rows[p] = row
       /\ Cardinality({p \in 1..Len(rows) : SortsBefore(rows[p].dt, row.dt)}) <= idx
       /\ Cardinality({p \in 1..Len(rows) : ~SortsBefore(row.dt, rows[p].dt)}) >= idx + 1

SecondToLastQuery ==
    <<"w", "h", "a", "t", " ", "w", "a", "s", " ", "m", "y", " ", "s", "e", "c", "o", "n", "d", "-", "t", "o", "-", "l", "a", "s", "t", " ", "t", "r", "a", "n", "s", "a", "c", "t", "i", "o", "n">>

\* the questions whose lower-cased text contains an order keyword
OrderQueries == {q \in QueryInputs : is_order_query(Lower(q))}

Mentions(question, words) == \E w \in words : Contains(Lower(question), w)

\* C28: the fast path reads the row at index 2 of the sorted table when the
\* question mentions third (kolmanneksi, third), else at index 1 when it
\* mentions second or previous (toiseksi, second, edellinen, previous), else
\* at index 0; when the table has no row at that index the answer is the
\* "not enough transactions" message with the number of rows, and no LLM is
\* called either way
C28_IndexByKeyword ==
    (turn > 0 /\ pc = "idle" /\ events = <<"fast_path">>) =>
        /\ answer.idx = (IF Mentions(query, {k_kolmanneksi, k_third}) THEN 2
                         ELSE IF Mentions(query, {k_toiseksi, k_second, k_edellinen, k_previous})
                              THEN 1
                         ELSE 0)
        /\ IF Len(table.rows) <= answer.idx
           THEN answer.kind = "not_enough" /\ answer.count = Len(table.rows)
           ELSE answer.kind = "row"
        /\ LLMCalls = <<>>

\* "THIRD LAST" on a table of two rows: index 2, not enough, 2 rows
C28_Witness ==
    /\ turn > 0
    /\ pc = "idle"
    /\ events = <<"fast_path">>
    /\ Mentions(query, {k_third})
    /\ Len(table.rows) = 2
    /\ answer.idx = 2
    /\ answer.kind = "not_enough"
    /\ answer.count = 2
    /\ LLMCalls = <<>>

Replies == {"fast", "tools", "chat"}

\* the history is user/assistant pairs, one pair per answered question, in
\* the order the questions were asked
Paired(h) ==
    /\ Len(h) % 2 = 0
    /\ \A p \in 1..Len(h) :
          IF p % 2 = 1
          THEN /\ h[p].role = "user"
               /\ h[p].turn = h[p + 1].turn
               /\ p > 2 => h[p - 2].turn < h[p].turn
          ELSE h[p].role = "assistant" /\ h[p].origin \in Replies

\* the question the turn added and, when it was answered, its one reply
Question(t) == Msg("user", "query", t)

\* C30: between turns the history is a sequence of user/assistant pairs;
\* during a turn it is such a sequence followed by the turn's question; the
\* step that ends a turn either appends exactly one assistant reply after
\* the question or removes the question, which leaves the history the turn
\* started with; a question goes unanswered only when the chat call raised
\* or returned a blank text
C30_HistoryPaired ==
    /\ [](IF pc = "idle"
          THEN /\ Paired(history)
               /\ (turn > 0 /\ \A p \in 1..Len(history) : history[p].turn # turn) =>
                     Happened("chat_llm")
          ELSE /\ history # <<>>
               /\ history[Len(history)] = Question(turn)
               /\ Paired(SubSeq(history, 1, Len(history) - 1)))
    /\ [][/\ (pc = "idle" /\ pc' # "idle") => history' = Append(history, Question(turn'))
          /\ (pc # "idle" /\ pc' # "idle") => history' = history
          /\ (pc # "idle" /\ pc' = "idle") =>
                \/ \E origin \in Replies :
                      history' = Append(history, Msg("assistant", origin, turn))
                \/ Append(history', Question(turn)) = history]_vars

\* the first question was taken back after its chat call failed and the
\* second was answered by the tools: one pair, of the second turn
C30_Witness ==
    /\ pc = "idle"
    /\ turn = 2
    /\ history = <<Question(2), Msg("assistant", "tools", 2)>>

\* C7 as stated: a question triggers at most two LLM calls on every path
C7_AtMostTwoCalls == Len(LLMCalls) <= 2

\* C7: a question triggers at most three LLM calls, one after the other:
\* the Router, the Narrator only after validation and execution, and the
\* fallback chat call; the third call happens only after the Narrator raised
\* or returned a blank text
C7_AtMostThreeCalls ==
    /\ LLMCalls \in {<<>>, <<"router_llm">>, <<"router_llm", "narrator_llm">>,
                     <<"router_llm", "chat_llm">>,
                     <<"router_llm", "narrator_llm", "chat_llm">>}
    /\ Precedes("validate", "execute")
    /\ Precedes("execute", "narrator_llm")
    /\ Len(LLMCalls) = 3 =>
          \/ "narrator" \in failed
          \/ (result # <<>> /\ result.mode = "tools" /\ Strip(result.answer) = <<>>)

C7_Witness == LLMCalls = <<"router_llm", "narrator_llm", "chat_llm">> /\ pc = "idle"

ToolsStages == {"router", "validate", "execute", "narrator"}

\* C8: a failure in the tools attempt (Router call, validation, tool,
\* Narrator call) is caught: the attempt is abandoned for the fallback stage,
\* and the turn ends in idle
C8_FailuresCaught ==
    /\ [](/\ pc \in {"idle", "order_check", "router", "check", "execute", "narrate", "fallback"}
          /\ (failed \cap ToolsStages # {}) =>
                /\ pc \in {"fallback", "idle"}
                /\ result = <<>>
                /\ \A p \in 1..Len(history) :
                      history[p].turn = turn => history[p].origin # "tools"
                /\ Happened("chat_llm") \/ pc = "fallback")
    /\ [][pc = "fallback" => pc' = "idle"]_vars

C8_Witness == "execute" \in failed /\ pc = "idle" /\ Happened("chat_llm")

\* C9: answer_with_tools returns a mapping with mode, plan, execution and
\* answer; mode is fallback exactly when the plan's tool is none
C9_ResultShape ==
    result # <<>> =>
        /\ {"mode", "plan", "execution", "answer"} \subseteq DOMAIN result
        /\ result.mode \in {"tools", "fallback"}
        /\ result.mode = "fallback" <=> result.plan.tool = s_none
        /\ result.mode = "fallback" =>
              (result.answer = <<>> /\ ~Happened("execute") /\ ~Happened("narrator_llm"))
        /\ result.mode = "tools" =>
              (result.execution.tool = result.plan.tool /\ result.execution.result # <<>>)

\* C10: the plan handed to execute_plan is the cleaned plan validate_plan
\* returned, and validation of the router's plan has finished before a tool
\* reads the table
C10_ValidatedBeforeUse ==
    /\ Precedes("validate", "execute")
    /\ Precedes("validate", "tool")
    /\ Happened("execute") =>
          /\ ~routed.raised
          /\ ~checked.raised
          /\ routed = validate_plan(raw, today)
          /\ checked = validate_plan(AsPlan(routed.cleaned), today)
          /\ executed = checked.cleaned

C10_Witness ==
    /\ Happened("tool")
    /\ RouterGave("n")
    /\ raw["args"].m # executed.args

\* ------------------------------------------------------------------------
\* validate_plan, field by field
\* ------------------------------------------------------------------------

\* the tool name validate_plan reads from the plan, "none" when unreadable
PlanTool(plan) ==
    LET t == Get(plan, "tool", Null)
    IN IF t.k = "str" /\ Strip(t.s) \in ALLOWED_TOOLS THEN Strip(t.s) ELSE s_none

\* the plan's args when they are a mapping, else the empty mapping
PlanArgs(plan) ==
    LET a == Get(plan, "args", Null)
    IN IF a.k = "obj" THEN a.m ELSE EmptyMap

\* the plan gives the field no value: missing, null, empty or only blanks
FieldBlank(plan, key) ==
    \/ key \notin DOMAIN PlanArgs(plan)
    \/ PlanArgs(plan)[key] = Null
    \/ PlanArgs(plan)[key].k = "str" /\ Strip(PlanArgs(plan)[key].s) = <<>>

\* the string field a tool requires
RequiredField(tool) ==
    IF tool \in {s_sum_by_merchant, s_merchant_breakdown} THEN "merchant_substr" ELSE "category"

RequiringTools == {s_sum_by_merchant, s_merchant_breakdown, s_sum_by_category, s_category_trend}

\* C11: a plan for sum_by_merchant, merchant_breakdown, sum_by_category or
\* category_trend whose required string field is missing, null, empty or
\* blank is cleaned to tool none with empty args, ok false and an error,
\* whatever its other arguments
C11_RequiredRejected ==
    (/\ vstage # "input"
     /\ PlanTool(vplan) \in RequiringTools
     /\ FieldBlank(vplan, RequiredField(PlanTool(vplan)))) =>
        /\ ~vfirst.raised
        /\ vfirst.cleaned.tool = s_none
        /\ vfirst.cleaned.args = EmptyMap
        /\ ~vfirst.ok
        /\ vfirst.errors # <<>>

C11_Witness ==
    /\ vstage = "validated"
    /\ PlanTool(vplan) = s_merchant_breakdown
    /\ "merchant_substr" \in DOMAIN PlanArgs(vplan)
    /\ PlanArgs(vplan)["merchant_substr"] = Str(<<" ">>)
    /\ "by" \in DOMAIN PlanArgs(vplan)
    /\ vfirst.cleaned = [tool |-> s_none, args |-> EmptyMap]

\* the integer fields of each tool's branch: name, default, lo, hi
IntFields(tool) ==
    CASE tool = s_get_latest ->
            {[name |-> "n", default |-> 1, lo |-> 1, hi |-> 10],
             [name |-> "offset", default |-> 0, lo |-> 0, hi |-> 50]}
      [] tool = s_top_transactions -> {[name |-> "n", default |-> 10, lo |-> 1, hi |-> 50]}
      [] tool = s_group_by_month -> {[name |-> "top_k", default |-> 5, lo |-> 1, hi |-> 10]}
      [] tool = s_recurring_merchants ->
            {[name |-> "months", default |-> 6, lo |-> 1, hi |-> 24],
             [name |-> "min_count", default |-> 3, lo |-> 2, hi |-> 20]}
      [] tool = s_category_trend -> {[name |-> "months", default |-> 6, lo |-> 1, hi |-> 24]}
      [] OTHER -> {}

\* the float fields of each tool's branch, in units of 1/FloatScale
FloatFields(tool) ==
    IF tool = s_outliers_large
    THEN {[name |-> "min_amount", default |-> 100 * FloatScale, lo |-> 0, hi |-> 1000000 * FloatScale]}
    ELSE {}

\* C12: in every cleaned plan with a tool, each numeric field of the tool is
\* present and inside its range; a supplied value that cannot be coerced
\* records an error and is replaced by the field's default
C12_NumericInRange ==
    (vstage # "input" /\ ~vfirst.raised /\ vfirst.cleaned.tool # s_none) =>
        LET tool == vfirst.cleaned.tool
            args == vfirst.cleaned.args
        IN /\ \A f \in IntFields(tool) :
                 /\ f.name \in DOMAIN args
                 /\ args[f.name].k = "int"
                 /\ f.lo <= args[f.name].i /\ args[f.name].i <= f.hi
                 /\ (f.name \in DOMAIN PlanArgs(vplan) /\ ~PyInt(PlanArgs(vplan)[f.name]).ok) =>
                       /\ args[f.name].i = f.default
                       /\ \E p \in 1..Len(vfirst.errors) : vfirst.errors[p] = Err("must be int", f.name)
           /\ \A f \in FloatFields(tool) :
                 /\ f.name \in DOMAIN args
                 /\ args[f.name].k = "float"
                 /\ f.lo <= args[f.name].i /\ args[f.name].i <= f.hi
                 /\ (f.name \in DOMAIN PlanArgs(vplan) /\ ~PyFloat(PlanArgs(vplan)[f.name]).ok) =>
                       /\ args[f.name].i = f.default
                       /\ \E p \in 1..Len(vfirst.errors) : vfirst.errors[p] = Err("must be number", f.name)

C12_Witness ==
    /\ vstage = "validated"
    /\ PlanTool(vplan) = s_get_latest
    /\ "n" \in DOMAIN PlanArgs(vplan)
    /\ "offset" \in DOMAIN PlanArgs(vplan)
    /\ PlanArgs(vplan)["n"] = IntV(100)
    /\ PlanArgs(vplan)["offset"] = Str(<<"x">>)
    /\ vfirst.cleaned.args["n"] = IntV(10)
    /\ vfirst.cleaned.args["offset"] = IntV(0)
    /\ vfirst.errors # <<>>

\* the errors hold one with this message for this name
HasError(errors, msg, name) == \E p \in 1..Len(errors) : errors[p] = Err(msg, name)

\* C13: the cleaned plan's tool is always in the allow-list; a tool name (a
\* string) outside the allow-list is forced to none, an error is recorded
\* and the args are cleared
C13_UnknownToolCleared ==
    (vstage # "input" /\ ~vfirst.raised) =>
        /\ vfirst.cleaned.tool \in ALLOWED_TOOLS
        /\ ("tool" \in DOMAIN vplan /\ vplan["tool"].k = "str"
              /\ Strip(vplan["tool"].s) \notin ALLOWED_TOOLS) =>
                 /\ vfirst.cleaned.tool = s_none
                 /\ HasError(vfirst.errors, "Unknown tool", "tool")
                 /\ vfirst.cleaned.args = EmptyMap

\* C14: args that are present and no mapping (a string, a number, a
\* boolean, a list) are replaced by the empty mapping and an error is
\* recorded, so ok is false
C14_NonMappingArgs ==
    (/\ vstage # "input"
     /\ ~vfirst.raised
     /\ "args" \in DOMAIN vplan
     /\ vplan["args"].k \in {"str", "int", "float", "bool", "list"}) =>
        /\ HasError(vfirst.errors, "must be an object", "args")
        /\ ~vfirst.ok
        /\ vfirst.cleaned = validate_plan(PlanOf(Str(PlanTool(vplan)), Obj(EmptyMap)), vtoday).cleaned

DateScopedTools ==
    {s_sum_by_merchant, s_sum_by_category, s_top_transactions, s_group_by_month,
     s_outliers_large, s_merchant_breakdown}

DateKeys == {"start_date", "end_date"}

\* the plan supplies the date a non-empty value that is no YYYY-MM-DD string
BadDate(plan, key) ==
    /\ key \in DOMAIN PlanArgs(plan)
    /\ PlanArgs(plan)[key] \notin {Null, Str(<<>>)}
    /\ ~DATE_RE(Strip(PyStr(PlanArgs(plan)[key])))

\* the plan has a period that expand_period resolves to a date range
PeriodResolves(plan) ==
    /\ "period" \in DOMAIN PlanArgs(plan)
    /\ PlanArgs(plan)["period"] # Null
    /\ Strip(PyStr(PlanArgs(plan)["period"])) \in PERIODS

\* the plan without one of its args
WithoutArg(plan, key) == PlanOf(plan["tool"], Obj(Pop(PlanArgs(plan), key)))

\* validation nulled the date with an error and kept the tool and the
\* other args as they are cleaned without it
DateNulled(plan, key, v, day) ==
    /\ v.cleaned.tool = PlanTool(plan)
    /\ v.cleaned.args[key] = Null
    /\ HasError(v.errors, "must be YYYY-MM-DD", key)
    /\ \A other \in DOMAIN v.cleaned.args \ {key} :
          v.cleaned.args[other] = validate_plan(WithoutArg(plan, key), day).cleaned.args[other]

\* the cleaned dates of a date-scoped tool are null or YYYY-MM-DD strings
DatesClean(v) ==
    v.cleaned.tool \in DateScopedTools =>
        \A key \in DateKeys :
            /\ key \in DOMAIN v.cleaned.args
            /\ v.cleaned.args[key] = Null \/ IsDateStr(v.cleaned.args[key])

\* C15 as stated: the cleaned dates of a date-scoped tool are null or
\* YYYY-MM-DD strings, and every supplied non-empty value that does not
\* match is nulled with an error while the tool and the other args are kept
C15_BadDateNulled ==
    (vstage # "input" /\ ~vfirst.raised) =>
        /\ DatesClean(vfirst)
        /\ \A key \in DateKeys :
              (/\ PlanTool(vplan) \in DateScopedTools
               /\ vfirst.cleaned.tool # s_none
               /\ BadDate(vplan, key)) => DateNulled(vplan, key, vfirst, vtoday)

\* C15: the same, for a plan without a period that resolves: a resolved
\* period overwrites the supplied dates before they are looked at, so a
\* malformed date under it is replaced by the period's date with no error
C15_BadDateNulledUnlessPeriod ==
    (vstage # "input" /\ ~vfirst.raised) =>
        /\ DatesClean(vfirst)
        /\ \A key \in DateKeys :
              (/\ PlanTool(vplan) \in DateScopedTools
               /\ vfirst.cleaned.tool # s_none
               /\ BadDate(vplan, key)) =>
                    IF PeriodResolves(vplan)
                    THEN IsDateStr(vfirst.cleaned.args[key])
                         /\ ~HasError(vfirst.errors, "must be YYYY-MM-DD", key)
                    ELSE DateNulled(vplan, key, vfirst, vtoday)

C15_Witness ==
    /\ vstage = "validated"
    /\ PlanTool(vplan) = s_top_transactions
    /\ BadDate(vplan, "start_date")
    /\ "n" \in DOMAIN PlanArgs(vplan)
    /\ vfirst.cleaned.tool = s_top_transactions
    /\ vfirst.cleaned.args["start_date"] = Null
    /\ HasError(vfirst.errors, "must be YYYY-MM-DD", "start_date")

\* ------------------------------------------------------------------------
\* expand_period on its own
\* ------------------------------------------------------------------------

\* consecutive days the clock is taken through
MaxDays == 480

\* the first of them: the days run over a year's end, a leap February and
\* an ordinary one
FirstDay == [y |-> 2023, m |-> 12, d |-> 1]

PeriodDays == {FromOrdinal(ToOrdinal(FirstDay) + k) : k \in 0..(MaxDays - 1)}

\* the values of args["period"]: every token, and values that are none
PeriodTokens ==
    {Str(t) : t \in PERIODS} \cup
    {Null, Str(<<>>), Str(<<"L">> \o Tail(s_last_month)), Str(<<" ">> \o s_last_month)}

\* what else args holds: nothing, or dates of its own and another argument
PeriodBases ==
    {EmptyMap,
     [k \in {"start_date", "end_date", "n"} |->
        CASE k = "start_date" -> Str(<<"2", "0", "2", "0", "-", "0", "1", "-", "0", "1">>)
          [] k = "end_date" -> Null
          [] k = "n" -> IntV(3)]}

PInit ==
    /\ ptoday \in PeriodDays
    /\ \E base \in PeriodBases : \E t \in PeriodTokens : pargs = Put(base, "period", t)
    /\ pstage = "input"
    /\ pfirst = EmptyMap
    /\ psecond = EmptyMap
    /\ XIdle
    /\ JIdle
    /\ vplan = EmptyMap
    /\ vtoday = ptoday
    /\ vstage = "off"
    /\ vfirst = NoResult
    /\ vsecond = NoResult
    /\ table = EmptyFrame
    /\ today = ptoday
    /\ turn = 0
    /\ pc = "idle"
    /\ history = <<>>
    /\ query = <<>>
    /\ raw = EmptyMap
    /\ routed = NoResult
    /\ checked = NoResult
    /\ executed = <<>>
    /\ execution = <<>>
    /\ result = <<>>
    /\ answer = NoAnswer
    /\ events = <<>>
    /\ failed = {}

\* expand_period(args, today)
Expand ==
    /\ pstage = "input"
    /\ pfirst' = expand_period(pargs, ptoday)
    /\ pstage' = "expanded"
    /\ UNCHANGED <<ptoday, pargs, psecond>>
    /\ UNCHANGED <<vvars, tvars, xvars, jvars>>

\* another call on the same day with the same period among other args
ExpandAgain ==
    /\ pstage = "expanded"
    /\ \E base \in PeriodBases :
          psecond' = expand_period(Put(base, "period", pargs["period"]), ptoday)
    /\ pstage' = "again"
    /\ UNCHANGED <<ptoday, pargs, pfirst>>
    /\ UNCHANGED <<vvars, tvars, xvars, jvars>>

PNext == Expand \/ ExpandAgain

SpecPeriod == PInit /\ [][PNext]_vars

\* the date a YYYY-MM-DD string names
ParseDate(s) ==
    [y |-> DigitsVal(SubSeq(s, 1, 4)), m |-> DigitsVal(SubSeq(s, 6, 7)),
     d |-> DigitsVal(SubSeq(s, 9, 10))]

\* args holds the dates first and last as YYYY-MM-DD strings, and no period
HoldsRange(args, first, last) ==
    /\ "period" \notin DOMAIN args
    /\ {"start_date", "end_date"} \subseteq DOMAIN args
    /\ IsDateStr(args["start_date"])
    /\ IsDateStr(args["end_date"])
    /\ ParseDate(args["start_date"].s) = first
    /\ ParseDate(args["end_date"].s) = last

\* args holds the dates as YYYY-MM-DD strings, the first `back` days before
\* the last, and no period
HoldsDays(args, back, last) ==
    /\ "period" \notin DOMAIN args
    /\ {"start_date", "end_date"} \subseteq DOMAIN args
    /\ IsDateStr(args["start_date"])
    /\ IsDateStr(args["end_date"])
    /\ ParseDate(args["start_date"].s).m \in 1..12
    /\ ToOrdinal(ParseDate(args["start_date"].s)) = ToOrdinal(last) - back
    /\ ParseDate(args["end_date"].s) = last

\* the range the specification gives a token on the day t
RangeAsSpecified(args, token, t) ==
    CASE token = s_last_7_days -> HoldsDays(args, 6, t)
      [] token = s_last_30_days -> HoldsDays(args, 29, t)
      [] token = s_last_90_days -> HoldsDays(args, 89, t)
      [] token = s_this_month -> HoldsRange(args, [y |-> t.y, m |-> t.m, d |-> 1], t)
      [] token = s_last_month ->
            IF t.m = 1
            THEN HoldsRange(args, [y |-> t.y - 1, m |-> 12, d |-> 1], [y |-> t.y - 1, m |-> 12, d |-> 31])
            ELSE HoldsRange(args, [y |-> t.y, m |-> t.m - 1, d |-> 1],
                            [y |-> t.y, m |-> t.m - 1, d |-> DaysInMonth(t.y, t.m - 1)])
      [] token = s_this_year -> HoldsRange(args, [y |-> t.y, m |-> 1, d |-> 1], t)
      [] token = s_last_year ->
            HoldsRange(args, [y |-> t.y - 1, m |-> 1, d |-> 1], [y |-> t.y - 1, m |-> 12, d |-> 31])

\* pargs carries a supported token
TokenGiven == pargs["period"].k = "str" /\ pargs["period"].s \in PERIODS

\* C17: for every day and every supported token expand_period returns the
\* args without period and with the range the token stands for on that day
\* (last_N_days: the N days ending today; this_month and this_year: from
\* their first day to today; last_month and last_year: the whole previous
\* calendar month and year), the other args kept; a second call on the same
\* day with the same token gives the same pair whatever else args holds
C17_PeriodExpanded ==
    (pstage \in {"expanded", "again"} /\ TokenGiven) =>
        /\ RangeAsSpecified(pfirst, pargs["period"].s, ptoday)
        /\ \A k \in DOMAIN pargs \ {"period", "start_date", "end_date"} :
              k \in DOMAIN pfirst /\ pfirst[k] = pargs[k]
        /\ pstage = "again" =>
              /\ "period" \notin DOMAIN psecond
              /\ psecond["start_date"] = pfirst["start_date"]
              /\ psecond["end_date"] = pfirst["end_date"]

C17_Witness ==
    /\ pstage = "again"
    /\ ptoday = [y |-> 2024, m |-> 1, d |-> 15]
    /\ pargs["period"] = Str(s_last_month)
    /\ "start_date" \in DOMAIN pargs
    /\ DOMAIN psecond = {"start_date", "end_date"}
    /\ ParseDate(pfirst["start_date"].s) = [y |-> 2023, m |-> 12, d |-> 1]
    /\ ParseDate(pfirst["end_date"].s) = [y |-> 2023, m |-> 12, d |-> 31]

\* ------------------------------------------------------------------------
\* ai_tools.py: the tool library
\* ------------------------------------------------------------------------

\* A DataFrame object is [own, cols, rows, arg]. own tells whether the
\* object was made by the library (a copy, a selection, a sorted frame) or
\* is the very object the caller passed in; arg is the caller's object as
\* the operations so far have left it. A row keeps its index label idx.

\* dt of a row before any dt column is set, and NaT
NoDt == [nat |-> TRUE, day |-> 0, time |-> 0]

\* str(Period) of NaT
NoYm == [y |-> 0, m |-> 0]

\* a transaction of the table
Tx(idx, date, time, merchant, category, amount, adjusted) ==
    [idx |-> idx, date |-> date, time |-> time, merchant |-> merchant, category |-> category,
     amount |-> amount, adjusted_amount |-> adjusted, dt |-> NoDt, ym |-> NoYm]

\* the columns and rows of a DataFrame object
Plain(df) == [cols |-> df.cols, rows |-> df.rows]

\* the object the caller passes in
Given(tbl) == [own |-> FALSE, cols |-> tbl.cols, rows |-> tbl.rows, arg |-> tbl]

\* df.copy()
Copy(df) == [df EXCEPT !.own = TRUE]

\* a new object with the rows of df at the positions ps, in that order
Take(df, ps) ==
    [own |-> TRUE, cols |-> df.cols, rows |-> [p \in 1..Len(ps) |-> df.rows[ps[p]]], arg |-> df.arg]

\* df[mask]: a new object with the rows the mask keeps
Masked(df, Keep(_)) ==
    Take(df, SelectSeq([p \in 1..Len(df.rows) |-> p], LAMBDA p : Keep(df.rows[p])))

\* the object df after an assignment to one of its columns
Assigned(df, col, rows) ==
    [own |-> df.own, cols |-> df.cols \cup {col}, rows |-> rows,
     arg |-> IF df.own THEN df.arg ELSE [cols |-> df.cols \cup {col}, rows |-> rows]]

\* an ensure_dt that leaves the time out
ToolDt_DateOnly(df, row) ==
    IF "date" \notin df.cols \/ row.date = NaT THEN NoDt
    ELSE [nat |-> FALSE, day |-> row.date, time |-> 0]

\* date + time of a row: the date at midnight when the table has no time
\* column or the time is none; a table without a date column has no dates
ToolDt(df, row) ==
    IF "date" \notin df.cols \/ row.date = NaT THEN NoDt
    ELSE [nat |-> FALSE, day |-> row.date,
          time |-> IF "time" \in df.cols /\ row.time # BadTime THEN row.time ELSE 0]

\* df["dt"] = d + t
WithDt(df) ==
    Assigned(df, "dt", [p \in 1..Len(df.rows) |-> [df.rows[p] EXCEPT !.dt = ToolDt(df, df.rows[p])]])

\* an ensure_dt that sets the column on the object it is given
tools_ensure_dt_InPlace(df) == WithDt(df)

\* ensure_dt(df) of ai_tools.py
tools_ensure_dt(df) == WithDt(Copy(df))

\* dt.to_period("M") of a datetime
YmOf(dt) == IF dt.nat THEN NoYm ELSE [y |-> FromOrdinal(dt.day).y, m |-> FromOrdinal(dt.day).m]

\* df["ym"] = df["dt"].dt.to_period("M").astype(str)
WithYm(df) ==
    Assigned(df, "ym", [p \in 1..Len(df.rows) |-> [df.rows[p] EXCEPT !.ym = YmOf(df.rows[p].dt)]])

\* a YYYY-MM-DD string that names a day of the calendar
IsCalendarDate(s) ==
    /\ DATE_RE(s)
    /\ ParseDate(s).y >= 1
    /\ ParseDate(s).m \in 1..12
    /\ ParseDate(s).d \in 1..DaysInMonth(ParseDate(s).y, ParseDate(s).m)

\* midnight of a day
Midnight(day) == [nat |-> FALSE, day |-> day, time |-> 0]

\* parse_ymd(s) for the values validate_plan lets through (None or a
\* YYYY-MM-DD string): None, a Timestamp, or NaT for a string that names no
\* day
parse_ymd(s) ==
    IF ~Truthy(s) THEN [none |-> TRUE, ts |-> NoDt]
    ELSE IF s.k = "str" /\ IsCalendarDate(s.s)
         THEN [none |-> FALSE, ts |-> Midnight(ToOrdinal(ParseDate(s.s)))]
         ELSE [none |-> FALSE, ts |-> NoDt]

\* a bound that is not None and not NaT
Limits(bound) == ~bound.none /\ ~bound.ts.nat

\* dt >= ts; a comparison with NaT is False
DtGeq(dt, ts) == ~dt.nat /\ ~ts.nat /\ ~DtLess(dt, ts)

\* a filter_by_date whose upper bound is the midnight that starts end_date
filter_by_date_Exclusive(df, start_date, end_date) ==
    LET e == tools_ensure_dt(df)
        start == parse_ymd(start_date)
        end == parse_ymd(end_date)
        out == IF Limits(start) THEN Masked(e, LAMBDA r : DtGeq(r.dt, start.ts)) ELSE e
    IN IF Limits(end)
       THEN Masked(out, LAMBDA r : DtLess(r.dt, Midnight(end.ts.day)))
       ELSE out

\* filter_by_date(df, start_date, end_date)
filter_by_date(df, start_date, end_date) ==
    LET e == tools_ensure_dt(df)
        start == parse_ymd(start_date)
        end == parse_ymd(end_date)
        out == IF Limits(start) THEN Masked(e, LAMBDA r : DtGeq(r.dt, start.ts)) ELSE e
    IN IF Limits(end)
       THEN Masked(out, LAMBDA r : DtLess(r.dt, Midnight(end.ts.day + 1)))
       ELSE out

\* sum of a sequence of numbers
RECURSIVE SumSeq(_)
SumSeq(s) == IF s = <<>> THEN 0 ELSE s[1] + SumSeq(Tail(s))

\* the largest of a non-empty sequence of numbers
MaxSeq(s) == CHOOSE v \in {s[p] : p \in 1..Len(s)} : \A q \in 1..Len(s) : s[q] <= v

\* the numbers of s in ascending order
RECURSIVE Ascending(_)
Ascending(s) ==
    IF s = <<>> THEN <<>>
    ELSE LET at == CHOOSE p \in 1..Len(s) : \A q \in 1..Len(s) : s[p] <= s[q]
         IN <<s[at]>> \o Ascending(SubSeq(s, 1, at - 1) \o SubSeq(s, at + 1, Len(s)))

\* a quotient num/den
Ratio(num, den) == [num |-> num, den |-> den]

\* Series.median()
Median(s) ==
    LET a == Ascending(s)
        n == Len(s)
    IN IF n % 2 = 1 THEN Ratio(a[(n + 1) \div 2], 1) ELSE Ratio(a[n \div 2] + a[(n \div 2) + 1], 2)

\* df[amount_col] as a sequence
Amounts(df) == [p \in 1..Len(df.rows) |-> df.rows[p][pick_amount_col(df)]]

\* basic_stats(df)
basic_stats(df) ==
    LET s == IF pick_amount_col(df) \in df.cols THEN Amounts(df) ELSE <<>>
    IN [count |-> Len(df.rows),
        sum_eur |-> IF Len(s) > 0 THEN SumSeq(s) ELSE 0,
        avg_eur |-> IF Len(s) > 0 THEN Ratio(SumSeq(s), Len(s)) ELSE Ratio(0, 1),
        median_eur |-> IF Len(s) > 0 THEN Median(s) ELSE Ratio(0, 1),
        max_eur |-> IF Len(s) > 0 THEN MaxSeq(s) ELSE 0]

\* min(a, b)
Min(a, b) == IF a < b THEN a ELSE b

\* df.head(n)
FirstRows(df, n) == Take(df, [p \in 1..Min(n, Len(df.rows)) |-> p])

\* rows without a limit
tx_rows_All(df, limit) ==
    [p \in 1..Len(df.rows) |->
        [c \in {"dt", "merchant", pick_amount_col(df), "category"} \cap df.cols |-> df.rows[p][c]]]

\* tx_rows(df, limit): the items of the first rows, with the columns of
\* the list that the frame has
tx_rows(df, limit) ==
    [p \in 1..Min(limit, Len(df.rows)) |->
        [c \in {"dt", "merchant", pick_amount_col(df), "category"} \cap df.cols |-> df.rows[p][c]]]

\* the index labels of a frame, in its order
IndexOf(df) == [p \in 1..Len(df.rows) |-> df.rows[p].idx]

\* the sequences of the positions in rest in which no position comes after
\* one it is before in rel
RECURSIVE Extensions(_, _)
Extensions(rest, rel) ==
    IF rest = {} THEN {<<>>}
    ELSE UNION {{<<i>> \o s : s \in Extensions(rest \ {i}, rel)} :
                i \in {j \in rest : \A k \in rest : <<k, j>> \notin rel}}

\* the orders sort_values may leave the rows in: positions of the rows such
\* that no row comes after one it is Before; rows that tie come in any
\* order (quicksort)
SortedPositions(rows, Before(_, _)) ==
    Extensions(1..Len(rows),
               {x \in (1..Len(rows)) \X (1..Len(rows)) : Before(rows[x[1]], rows[x[2]])})

\* sort_values("dt", ascending=False): later first, NaT last
DtDescBefore(a, b) == (~a.dt.nat /\ b.dt.nat) \/ DtLess(b.dt, a.dt)

\* what a tool call that raises leaves behind: df[name], or a groupby by
\* name, for a name that is no column of df raises KeyError
KeyError(df) == [error |-> "KeyError", table |-> df.arg]

\* what a tool call leaves behind: the mapping it returns, the index
\* labels of the frame its summary is about, for each returned row the
\* labels of the rows it reports on, and the caller's table afterwards
ToolOut(returned, summarised, members, df) ==
    [result |-> returned, index |-> IndexOf(summarised), members |-> members, table |-> df.arg]

\* the labels behind the items tx_rows returns
RowMembers(df, limit) == [p \in 1..Min(limit, Len(df.rows)) |-> {df.rows[p].idx}]

\* two mappings merged ({**a, **b} with disjoint keys)
Merge(a, b) == [k \in DOMAIN a \cup DOMAIN b |-> IF k \in DOMAIN a THEN a[k] ELSE b[k]]

Meta(df) == [amount_col |-> pick_amount_col(df)]

\* the characters a regular expression reads as operators, of those a
\* pattern of the model is made of
Quantifiers == {"*", "+"}
Openers == {"(", "["}

\* re.compile(pat) raises re.error: a "(" or a "[" that nothing closes, or
\* a "*" or "+" with nothing to repeat (a pattern of the model holds no
\* ")", "]" or backslash, and no quantifier after a quantifier)
BadPattern(pat) ==
    \/ \E p \in 1..Len(pat) : pat[p] \in Openers
    \/ (pat # <<>> /\ pat[1] \in Quantifiers)

\* the regular expression pat matches a prefix of s: a "." stands for any
\* character, x* for no x or more, x+ for one x or more, any other
\* character for itself
RECURSIVE MatchHere(_, _)
MatchHere(pat, s) ==
    IF pat = <<>> THEN TRUE
    ELSE IF Len(pat) >= 2 /\ pat[2] \in Quantifiers
         THEN \E k \in (IF pat[2] = "+" THEN 1 ELSE 0)..Len(s) :
                 /\ \A q \in 1..k : pat[1] = "." \/ pat[1] = s[q]
                 /\ MatchHere(SubSeq(pat, 3, Len(pat)), SubSeq(s, k + 1, Len(s)))
         ELSE /\ s # <<>>
              /\ (pat[1] = "." \/ pat[1] = s[1])
              /\ MatchHere(Tail(pat), Tail(s))

\* str.contains(pat, case=False): re.search of the pattern, compiled with
\* IGNORECASE, finds a match somewhere in s
ContainsNoCase(s, pat) ==
    \E p \in 0..Len(s) : MatchHere(Lower(pat), SubSeq(Lower(s), p + 1, Len(s)))

\* what a tool call that raises leaves behind: re.compile of a pattern
\* that is no regular expression raises re.error
RegexError(df) == [error |-> "re.error", table |-> df.arg]

\* str.lower().eq(category.lower())
EqNoCase(s, t) == Lower(s) = Lower(t)

\* a slice that starts at the first row whatever the offset
Slice_FromStart(df, a, b) == Take(df, [p \in 1..Min(b - a, Len(df.rows)) |-> p])

\* df.iloc[a:b] for 0 <= a <= b
Slice(df, a, b) ==
    Take(df, [p \in 1..(IF Min(b, Len(df.rows)) > a THEN Min(b, Len(df.rows)) - a ELSE 0) |-> a + p])

\* tool_get_latest from line 105 on, sort_values having left the rows of
\* e in the order g
get_latest_sorted(e, g, n, offset) ==
    LET sorted == Take(e, g)
        slice_df == Slice(sorted, offset, offset + n)
    IN ToolOut([summary |-> Merge([label |-> ToolLabel(s_get_latest), n |-> n, offset |-> offset],
                                  basic_stats(slice_df)),
                rows |-> tx_rows(slice_df, n),
                meta |-> Meta(sorted)],
               slice_df, RowMembers(slice_df, n), slice_df)

\* tool_get_latest(df, n, offset)
tool_get_latest(df, n, offset) ==
    LET e == tools_ensure_dt(df)
    IN {get_latest_sorted(e, g, n, offset) : g \in SortedPositions(e.rows, DtDescBefore)}

\* tool_sum_by_merchant(df, merchant_substr, start_date, end_date)
tool_sum_by_merchant(df, merchant_substr, start_date, end_date) ==
    LET f == filter_by_date(df, start_date, end_date)
        m == Masked(f, LAMBDA r : ContainsNoCase(r.merchant, merchant_substr.s))
    IN IF "merchant" \notin f.cols THEN {KeyError(f)}
       ELSE IF BadPattern(merchant_substr.s) THEN {RegexError(f)} ELSE
       {LET sub == Take(m, g)
        IN ToolOut([summary |-> Merge([label |-> s_sum_by_merchant, merchant_substr |-> merchant_substr,
                                      start_date |-> start_date, end_date |-> end_date],
                                     basic_stats(sub)),
                    rows |-> tx_rows(sub, 50),
                    meta |-> Meta(f)],
                   sub, RowMembers(sub, 50), sub) :
        g \in SortedPositions(m.rows, DtDescBefore)}

\* tool_sum_by_category(df, category, start_date, end_date)
tool_sum_by_category(df, category, start_date, end_date) ==
    LET f == filter_by_date(df, start_date, end_date)
        m == Masked(f, LAMBDA r : EqNoCase(r.category, category.s))
    IN IF "category" \notin f.cols THEN {KeyError(f)} ELSE
       {LET sub == Take(m, g)
        IN ToolOut([summary |-> Merge([label |-> s_sum_by_category, category |-> category,
                                      start_date |-> start_date, end_date |-> end_date],
                                     basic_stats(sub)),
                    rows |-> tx_rows(sub, 50),
                    meta |-> Meta(f)],
                   sub, RowMembers(sub, 50), sub) :
        g \in SortedPositions(m.rows, DtDescBefore)}

\* tool_top_transactions(df, n, start_date, end_date, category, merchant_substr)
tool_top_transactions(df, n, start_date, end_date, category, merchant_substr) ==
    LET f == filter_by_date(df, start_date, end_date)
        amount_col == pick_amount_col(f)
        c == Copy(f)
        bycat == IF Truthy(category) THEN Masked(c, LAMBDA r : EqNoCase(r.category, category.s)) ELSE c
        bymer == IF Truthy(merchant_substr)
                 THEN Masked(bycat, LAMBDA r : ContainsNoCase(r.merchant, merchant_substr.s))
                 ELSE bycat
    IN IF \/ (Truthy(category) /\ "category" \notin c.cols)
          \/ (Truthy(merchant_substr) /\ "merchant" \notin c.cols)
       THEN {KeyError(c)}
       ELSE IF Truthy(merchant_substr) /\ BadPattern(merchant_substr.s) THEN {RegexError(c)} ELSE
       {LET out == FirstRows(Take(bymer, g), n)
        IN ToolOut([summary |-> Merge([label |-> s_top_transactions, n |-> n,
                                      filters |-> [start_date |-> start_date, end_date |-> end_date,
                                                   category |-> category,
                                                   merchant_substr |-> merchant_substr]],
                                     basic_stats(out)),
                    rows |-> tx_rows(out, n),
                    meta |-> [amount_col |-> amount_col]],
                   out, RowMembers(out, n), out) :
        g \in SortedPositions(bymer.rows, LAMBDA a, b : a[amount_col] > b[amount_col])}

\* tool_outliers_large(df, min_amount, start_date, end_date); the amounts
\* are whole euros and min_amount a float of the validator (no amount is
\* >= nan)
tool_outliers_large(df, min_amount, start_date, end_date) ==
    LET f == filter_by_date(df, start_date, end_date)
        amount_col == pick_amount_col(f)
        m == Masked(f, LAMBDA r : min_amount.k = "float" /\ r[amount_col] * FloatScale >= min_amount.i)
    IN {LET out == Take(m, g)
        IN ToolOut([summary |-> Merge([label |-> s_outliers_large, min_amount |-> min_amount,
                                      start_date |-> start_date, end_date |-> end_date],
                                     basic_stats(out)),
                    rows |-> tx_rows(out, 50),
                    meta |-> [amount_col |-> amount_col]],
                   out, RowMembers(out, 50), out) :
        g \in SortedPositions(m.rows, LAMBDA a, b : a[amount_col] > b[amount_col])}

s_merchant == <<"m", "e", "r", "c", "h", "a", "n", "t">>

\* the column a field name stands for among the columns a table is grouped
\* by here; any other name is no column of the table
ColumnOf(name) ==
    CASE name = s_category -> "category"
      [] name = s_merchant -> "merchant"
      [] OTHER -> "nocolumn"

\* the elements of a finite set, in some order
RECURSIVE SeqOf(_)
SeqOf(S) == IF S = {} THEN <<>> ELSE LET x == CHOOSE y \in S : TRUE IN <<x>> \o SeqOf(S \ {x})

\* groupby(key)[amount_col].sum() and agg: for each key its rows' labels,
\* their count, their summed amount and their months
Groups(df, Key(_)) ==
    {LET g == Masked(df, LAMBDA r : Key(r) = k)
     IN [key |-> k,
         members |-> {g.rows[p].idx : p \in 1..Len(g.rows)},
         txn_count |-> Len(g.rows),
         sum_eur |-> SumSeq(Amounts(g)),
         months_active |-> Cardinality({g.rows[p].ym : p \in 1..Len(g.rows)})] :
     k \in {Key(df.rows[p]) : p \in 1..Len(df.rows)}}

\* "2025-01" < "2025-02" < "NaT" as strings
YmLess(a, b) ==
    IF a = NoYm THEN FALSE
    ELSE IF b = NoYm THEN TRUE
    ELSE a.y < b.y \/ (a.y = b.y /\ a.m < b.m)

\* the sequences of the groups in an order sort_values may leave them in
GroupOrders(groups, Before(_, _)) ==
    LET s == SeqOf(groups)
    IN  {[p \in 1..Len(s) |-> s[g[p]]] : g \in SortedPositions(s, Before)}

\* no limit on the items of a month
TopPerMonth_All(items, top_k) == [p \in 1..Len(items) |-> [at |-> p, item |-> items[p]]]

\* a sequence without the items that have top_k items of their month before them
TopPerMonth(items, top_k) ==
    SelectSeq([p \in 1..Len(items) |-> [at |-> p, item |-> items[p]]],
              LAMBDA x : Cardinality({q \in 1..x.at : items[q].key[1] = x.item.key[1]}) <= top_k)

\* the first n of a sequence
FirstN(s, n) == SubSeq(s, 1, Min(n, Len(s)))

\* a frame's rows dropped: the frame of a result without statistics
NoRows(df) == Take(df, <<>>)

\* tool_group_by_month(df, start_date, end_date, field, top_k)
tool_group_by_month(df, start_date, end_date, field, top_k) ==
    LET f == filter_by_date(df, start_date, end_date)
        e == tools_ensure_dt(f)
        by == IF ColumnOf(field.s) \in e.cols THEN ColumnOf(field.s) ELSE "category"
        y == WithYm(e)
        grp == Groups(y, LAMBDA r : <<r.ym, r[by]>>)
    IN IF by \notin y.cols THEN {KeyError(y)} ELSE
       {LET top == FirstN(TopPerMonth(o, top_k), 12 * top_k)
        IN ToolOut([summary |-> [label |-> s_group_by_month, field |-> by, top_k |-> top_k,
                                start_date |-> start_date, end_date |-> end_date],
                    rows |-> [p \in 1..Len(top) |->
                                [month |-> top[p].item.key[1], field |-> by,
                                 value |-> top[p].item.key[2], sum_eur |-> top[p].item.sum_eur]],
                    meta |-> Meta(y)],
                   NoRows(y), [p \in 1..Len(top) |-> top[p].item.members], y) :
        o \in GroupOrders(grp, LAMBDA a, b :
                \/ YmLess(a.key[1], b.key[1])
                \/ (a.key[1] = b.key[1] /\ a.sum_eur > b.sum_eur))}

\* Series.max() of dt: the latest datetime, NaT when there is none
DtMax(df) ==
    IF \A p \in 1..Len(df.rows) : df.rows[p].dt.nat THEN NoDt
    ELSE LET p == CHOOSE q \in 1..Len(df.rows) :
                      /\ ~df.rows[q].dt.nat
                      /\ \A o \in 1..Len(df.rows) : ~DtLess(df.rows[q].dt, df.rows[o].dt)
         IN df.rows[p].dt

\* ts - pd.DateOffset(months=k): the same day of the month k months
\* earlier, or that month's last day, at the same time of day
MinusMonths(ts, k) ==
    LET d == FromOrdinal(ts.day)
        months == (d.y * 12 + (d.m - 1)) - k
        y == months \div 12
        m == (months % 12) + 1
    IN [nat |-> FALSE, day |-> ToOrdinal([y |-> y, m |-> m, d |-> Min(d.d, DaysInMonth(y, m))]),
        time |-> ts.time]

\* a filter that asks for the transactions only
IsRecurring_AnyMonths(x, min_count) == x.txn_count >= min_count

\* line 237: the merchants kept, by their transactions and their months
IsRecurring(x, min_count) == x.txn_count >= min_count /\ x.months_active >= 2

\* tool_recurring_merchants(df, months, min_count)
tool_recurring_merchants(df, months, min_count) ==
    LET e == tools_ensure_dt(df)
        max_dt == DtMax(e)
    IN IF max_dt.nat
       THEN {ToolOut([summary |-> [label |-> s_recurring_merchants, months |-> months,
                                  min_count |-> min_count, count |-> 0],
                      rows |-> <<>>, meta |-> Meta(e)],
                     NoRows(e), <<>>, e)}
       ELSE LET start == MinusMonths(max_dt, months)
                sub == WithYm(Copy(Masked(e, LAMBDA r : DtGeq(r.dt, start))))
                g == {x \in Groups(sub, LAMBDA r : r.merchant) : IsRecurring(x, min_count)}
            IN IF "merchant" \notin sub.cols THEN {KeyError(sub)} ELSE
               {LET top == FirstN(o, 30)
                IN ToolOut([summary |-> [label |-> s_recurring_merchants, months |-> months,
                                        min_count |-> min_count, found |-> Len(top)],
                            rows |-> [p \in 1..Len(top) |->
                                        [merchant |-> top[p].key, txn_count |-> top[p].txn_count,
                                         months_active |-> top[p].months_active,
                                         sum_eur |-> top[p].sum_eur]],
                            meta |-> Meta(e)],
                           NoRows(sub), [p \in 1..Len(top) |-> top[p].members], sub) :
                o \in GroupOrders(g, LAMBDA a, b :
                        \/ a.months_active > b.months_active
                        \/ (a.months_active = b.months_active /\ a.sum_eur > b.sum_eur))}

\* tool_merchant_breakdown(df, merchant_substr, by, start_date, end_date)
tool_merchant_breakdown(df, merchant_substr, by, start_date, end_date) ==
    LET f == filter_by_date(df, start_date, end_date)
        col == IF ColumnOf(by.s) \in f.cols THEN ColumnOf(by.s) ELSE "category"
        sub == Copy(Masked(f, LAMBDA r : ContainsNoCase(r.merchant, merchant_substr.s)))
        g == Groups(sub, LAMBDA r : r[col])
    IN IF "merchant" \notin f.cols THEN {KeyError(f)}
       ELSE IF BadPattern(merchant_substr.s) THEN {RegexError(f)}
       ELSE IF col \notin sub.cols THEN {KeyError(f)} ELSE
       {LET top == FirstN(o, 20)
        IN ToolOut([summary |-> Merge([label |-> s_merchant_breakdown, merchant_substr |-> merchant_substr,
                                      by |-> col, start_date |-> start_date, end_date |-> end_date],
                                     basic_stats(sub)),
                    rows |-> [p \in 1..Len(top) |->
                                [by |-> col, value |-> top[p].key, sum_eur |-> top[p].sum_eur]],
                    meta |-> Meta(f)],
                   sub, [p \in 1..Len(top) |-> top[p].members], sub) :
        o \in GroupOrders(g, LAMBDA a, b : a.sum_eur > b.sum_eur)}

\* tool_category_trend(df, category, months)
tool_category_trend(df, category, months) ==
    LET e == tools_ensure_dt(df)
        max_dt == DtMax(e)
    IN IF max_dt.nat
       THEN {ToolOut([summary |-> [label |-> s_category_trend, category |-> category,
                                  months |-> months, count |-> 0],
                      rows |-> <<>>, meta |-> Meta(e)],
                     NoRows(e), <<>>, e)}
       ELSE LET start == MinusMonths(max_dt, months)
                sub == WithYm(Copy(Masked(e, LAMBDA r :
                            DtGeq(r.dt, start) /\ EqNoCase(r.category, category.s))))
                g == Groups(sub, LAMBDA r : r.ym)
            IN IF "category" \notin e.cols THEN {KeyError(e)} ELSE
               {ToolOut([summary |-> [label |-> s_category_trend, category |-> category,
                                     months |-> months, start_from |-> start.day],
                         rows |-> [p \in 1..Len(o) |-> [month |-> o[p].key, sum_eur |-> o[p].sum_eur]],
                         meta |-> Meta(e)],
                        NoRows(sub), [p \in 1..Len(o) |-> o[p].members], sub) :
                o \in GroupOrders(g, LAMBDA a, b : YmLess(a.key, b.key))}

\* fn(df, **args): the keywords bound to the parameters of the tool
\* function, a parameter without a keyword taking its default
RunTool(tool, df, args) ==
    CASE tool = s_get_latest ->
            tool_get_latest(df, Get(args, "n", IntV(1)).i, Get(args, "offset", IntV(0)).i)
      [] tool = s_sum_by_merchant ->
            tool_sum_by_merchant(df, args["merchant_substr"], Get(args, "start_date", Null),
                                 Get(args, "end_date", Null))
      [] tool = s_sum_by_category ->
            tool_sum_by_category(df, args["category"], Get(args, "start_date", Null),
                                 Get(args, "end_date", Null))
      [] tool = s_top_transactions ->
            tool_top_transactions(df, Get(args, "n", IntV(10)).i, Get(args, "start_date", Null),
                                  Get(args, "end_date", Null), Get(args, "category", Null),
                                  Get(args, "merchant_substr", Null))
      [] tool = s_group_by_month ->
            tool_group_by_month(df, Get(args, "start_date", Null), Get(args, "end_date", Null),
                                Get(args, "field", Str(s_category)), Get(args, "top_k", IntV(5)).i)
      [] tool = s_outliers_large ->
            tool_outliers_large(df, Get(args, "min_amount", FloatV(100 * FloatScale)),
                                Get(args, "start_date", Null), Get(args, "end_date", Null))
      [] tool = s_recurring_merchants ->
            tool_recurring_merchants(df, Get(args, "months", IntV(6)).i, Get(args, "min_count", IntV(3)).i)
      [] tool = s_merchant_breakdown ->
            tool_merchant_breakdown(df, args["merchant_substr"], Get(args, "by", Str(s_category)),
                                    Get(args, "start_date", Null), Get(args, "end_date", Null))
      [] tool = s_category_trend ->
            tool_category_trend(df, args["category"], Get(args, "months", IntV(6)).i)

\* ------------------------------------------------------------------------
\* execute_plan on its own
\* ------------------------------------------------------------------------

\* rows of an enumerated table of transactions
MaxTxRows == 2

\* the last minute of a day, 23:59
LastMinute == 1439

Day10 == ToOrdinal([y |-> 2025, m |-> 1, d |-> 10])

\* the transactions a table is made of: one at 23:59 of January 10, one at
\* 00:00 of January 11, one in February whose time is no time, one without
\* a date; the adjusted amount is the amount or a part of it
TxInputs ==
    {[date |-> Day10, time |-> LastMinute, merchant |-> <<"K", "-", "M", "a", "r", "k", "e", "t">>, category |-> <<"f", "o", "o", "d">>, amount |-> 20, adjusted_amount |-> 10],
     [date |-> Day10 + 1, time |-> 0, merchant |-> <<"L", "i", "d", "l">>, category |-> <<"F", "o", "o", "d">>, amount |-> 5, adjusted_amount |-> 5],
     [date |-> Day10 + 22, time |-> BadTime, merchant |-> <<"K", "-", "M", "a", "r", "k", "e", "t">>, category |-> <<"r", "e", "n", "t">>, amount |-> 100, adjusted_amount |-> 100],
     [date |-> NaT, time |-> 0, merchant |-> <<"L", "i", "d", "l">>, category |-> <<"f", "o", "o", "d">>, amount |-> 7, adjusted_amount |-> 3]}

\* a table of the pipeline, with the column adjusted_amount or without it
TxTables ==
    {[cols |-> c,
      rows |-> [p \in 1..Len(r) |->
                  Tx(p - 1, r[p].date, r[p].time, r[p].merchant, r[p].category, r[p].amount,
                     r[p].adjusted_amount)]] :
        c \in {PipelineCols, PipelineCols \ {"adjusted_amount"}},
        r \in UNION {[1..n -> TxInputs] : n \in 0..MaxTxRows}}

\* the values the router gives an argument of a plan that is executed
XArgInputs(key) ==
    CASE key = "n" -> {IntV(1), IntV(2)}
      [] key = "offset" -> {IntV(0), IntV(1)}
      [] key = "top_k" -> {IntV(1), IntV(2)}
      [] key = "months" -> {IntV(1), IntV(6)}
      [] key = "min_count" -> {IntV(2)}
      [] key = "min_amount" -> {FloatV(6 * FloatScale), FloatV(15 * FloatScale)}
      [] key = "merchant_substr" -> {Str(<<"m", "a", "r", "k", "e", "t">>), Str(<<"l", "i", "d", "l">>)}
      [] key = "category" -> {Str(<<"f", "o", "o", "d">>), Str(<<"R", "E", "N", "T">>)}
      [] key \in {"field", "by"} -> {Str(s_category), Str(s_merchant), Str(<<"x">>)}
      [] key = "start_date" -> {Null, Str(<<"2", "0", "2", "5", "-", "0", "1", "-", "1", "0">>), Str(<<"2", "0", "2", "5", "-", "0", "1", "-", "1", "1">>), Str(<<"2", "0", "2", "5", "-", "0", "2", "-", "3", "0">>)}
      [] key = "end_date" -> {Null, Str(<<"2", "0", "2", "5", "-", "0", "1", "-", "1", "0">>)}

\* the keys the router fills in for a tool
XKeys(tool) ==
    CASE tool = s_get_latest -> {"n", "offset"}
      [] tool = s_sum_by_merchant -> {"merchant_substr", "start_date", "end_date"}
      [] tool = s_sum_by_category -> {"category", "start_date", "end_date"}
      [] tool = s_top_transactions -> {"n", "start_date", "end_date"}
      [] tool = s_group_by_month -> {"start_date", "end_date", "field", "top_k"}
      [] tool = s_outliers_large -> {"min_amount", "start_date", "end_date"}
      [] tool = s_recurring_merchants -> {"months", "min_count"}
      [] tool = s_merchant_breakdown -> {"merchant_substr", "by", "start_date", "end_date"}
      [] tool = s_category_trend -> {"category", "months"}

\* the keys the router may add
XOptionalKeys(tool) == IF tool = s_top_transactions THEN {"category", "merchant_substr"} ELSE {}

\* all mappings of the keys to their values
XArgMaps(keys) == {m \in [keys -> UNION {XArgInputs(k) : k \in keys}] : \A k \in keys : m[k] \in XArgInputs(k)}

\* the day of the calls
XDay == [y |-> 2025, m |-> 6, d |-> 15]

\* the plans answer_with_tools hands to execute_plan: cleaned by validate_plan
ValidatedPlans ==
    UNION {{validate_plan(PlanOf(Str(t), Obj(m)), XDay).cleaned :
                m \in UNION {XArgMaps(XKeys(t) \cup o) : o \in SUBSET XOptionalKeys(t)}} :
           t \in TOOL_REGISTRY}

\* plans that name no tool of the registry, and a cleaned plan that kept a
\* null period
OtherPlans ==
    {[tool |-> s_none, args |-> EmptyMap],
     [tool |-> <<"e", "x", "p", "o", "r", "t">>, args |-> [k \in {"n"} |-> IntV(1)]],
     [tool |-> <<>>, args |-> EmptyMap],
     validate_plan(PlanOf(Str(s_get_latest), Obj([k \in {"period"} |-> Null])), XDay).cleaned}

XPlans == ValidatedPlans \cup OtherPlans

XInit ==
    /\ xgiven \in TxTables
    /\ xtable = xgiven
    /\ xplan = EmptyMap
    /\ xout = <<>>
    /\ PIdle
    /\ JIdle
    /\ vplan = EmptyMap
    /\ vtoday = XDay
    /\ vstage = "off"
    /\ vfirst = NoResult
    /\ vsecond = NoResult
    /\ table = EmptyFrame
    /\ today = XDay
    /\ turn = 0
    /\ pc = "idle"
    /\ history = <<>>
    /\ query = <<>>
    /\ raw = EmptyMap
    /\ routed = NoResult
    /\ checked = NoResult
    /\ executed = <<>>
    /\ execution = <<>>
    /\ result = <<>>
    /\ answer = NoAnswer
    /\ events = <<>>
    /\ failed = {}

\* what a call that ran no tool function to its end leaves behind
NoToolOut(e) ==
    [raised |-> e.raised, called |-> e.called, read |-> FALSE, execution |-> e.execution,
     index |-> <<>>, members |-> <<>>]

\* execute_plan(df, plan): the dispatch, and for a registered tool whose
\* parameters bind the tool function on the caller's table
ExecutePlan(plan) ==
    /\ xplan = EmptyMap
    /\ \E e \in {execute_plan(xtable, plan)} :
          /\ xplan' = plan
          /\ IF e.called /\ ~e.raised
             THEN \E o \in RunTool(plan.tool, Given(xtable), plan.args) :
                    /\ xout' = IF "error" \in DOMAIN o
                               THEN [raised |-> TRUE, called |-> TRUE, read |-> TRUE,
                                     execution |-> <<>>, index |-> <<>>, members |-> <<>>]
                               ELSE [raised |-> FALSE, called |-> TRUE, read |-> TRUE,
                                     execution |-> [tool |-> plan.tool, args |-> plan.args,
                                                    result |-> o.result],
                                     index |-> o.index, members |-> o.members]
                    /\ xtable' = o.table
             ELSE /\ xout' = NoToolOut(e)
                  /\ xtable' = xtable
    /\ xgiven' = xgiven
    /\ UNCHANGED <<vvars, tvars, pvars, jvars>>

\* execute_plan with a plan answer_with_tools may hand it, or another
XCall == \E plan \in XPlans : ExecutePlan(plan)

\* the caller takes the result and is ready for the next plan
XReturn ==
    /\ xplan # EmptyMap
    /\ xplan' = EmptyMap
    /\ xout' = <<>>
    /\ UNCHANGED <<xgiven, xtable>>
    /\ UNCHANGED <<vvars, tvars, pvars, jvars>>

XNext == XCall \/ XReturn

SpecTools == XInit /\ [][XNext]_vars

\* ------------------------------------------------------------------------
\* Properties of the tool library and of execute_plan
\* ------------------------------------------------------------------------

\* a call of execute_plan has returned or raised and the caller has its outcome
XCalled == xplan # EmptyMap

\* C16: execute_plan with tool none, or with a tool name that has no
\* registry entry, returns the null result without raising, without calling
\* a tool function and without reading the table; a tool function is called
\* only for a registered name
C16_NullWithoutTool ==
    XCalled =>
        /\ (xplan.tool = s_none \/ xplan.tool \notin TOOL_REGISTRY) =>
              /\ ~xout.raised
              /\ xout.execution = NullExecution
              /\ ~xout.called
              /\ ~xout.read
        /\ (xout.called \/ xout.read) => xplan.tool \in TOOL_REGISTRY

C16_Witness ==
    /\ XCalled
    /\ xplan.tool = <<"e", "x", "p", "o", "r", "t">>
    /\ Len(xgiven.rows) > 0
    /\ xout.execution = NullExecution

\* C18: whatever plans are executed one after another, the caller's table
\* keeps the rows, the columns (no dt, no ym) and the values it was loaded with
C18_TableNotMutated == xtable = xgiven

C18_Witness ==
    /\ XCalled
    /\ xout.read
    /\ xplan.tool = s_group_by_month
    /\ Len(xout.execution.result.rows) > 0
    /\ Len(xgiven.rows) > 0
    /\ xtable.cols \cap {"dt", "ym"} = {}

\* minutes of a day
MinutesPerDay == 1440

\* the minute a datetime falls in, counted from the calendar's first day
MinuteOf(dt) == dt.day * MinutesPerDay + dt.time

\* a bound of a date range: none, or the day a YYYY-MM-DD string names
IsBound(v) == v = Null \/ (v.k = "str" /\ IsCalendarDate(v.s))

\* the row has a dt with start_date 00:00:00 <= dt < end_date + 1 day, a
\* null bound being no limit
InRange(tbl, row, start_date, end_date) ==
    LET dt == ToolDt(tbl, row)
    IN /\ start_date # Null =>
              ~dt.nat /\ ToOrdinal(ParseDate(start_date.s)) * MinutesPerDay <= MinuteOf(dt)
       /\ end_date # Null =>
              ~dt.nat /\ MinuteOf(dt) < (ToOrdinal(ParseDate(end_date.s)) + 1) * MinutesPerDay

\* every label a call reports on: those its summary covers and those
\* behind its rows
Reported(out) ==
    {out.index[p] : p \in 1..Len(out.index)} \cup UNION {out.members[p] : p \in 1..Len(out.members)}

\* C19: filter_by_date keeps exactly the rows with start_date 00:00:00 <=
\* dt < end_date + 1 day, in their order, a null bound being no limit, and a
\* date-scoped tool reports on such rows only: a row at 23:59 of end_date
\* is kept, a row at 00:00 of the next day is dropped
C19_InclusiveRange ==
    (/\ XCalled
     /\ xout.read
     /\ xplan.tool \in DateScopedTools
     /\ IsBound(xplan.args["start_date"])
     /\ IsBound(xplan.args["end_date"])) =>
        LET kept == SelectSeq(xgiven.rows, LAMBDA r :
                        InRange(xgiven, r, xplan.args["start_date"], xplan.args["end_date"]))
        IN /\ IndexOf(filter_by_date(Given(xgiven), xplan.args["start_date"], xplan.args["end_date"]))
                = [p \in 1..Len(kept) |-> kept[p].idx]
           /\ Reported(xout) \subseteq {kept[p].idx : p \in 1..Len(kept)}

C19_Witness ==
    /\ XCalled
    /\ xout.read
    /\ xplan.tool = s_sum_by_category
    /\ xplan.args["start_date"] = Str(<<"2", "0", "2", "5", "-", "0", "1", "-", "1", "0">>)
    /\ xplan.args["end_date"] = Str(<<"2", "0", "2", "5", "-", "0", "1", "-", "1", "0">>)
    /\ Len(xgiven.rows) = 2
    /\ xgiven.rows[1].date = Day10 /\ xgiven.rows[1].time = LastMinute
    /\ xgiven.rows[2].date = Day10 + 1 /\ xgiven.rows[2].time = 0
    /\ EqNoCase(xgiven.rows[2].category, xplan.args["category"].s)
    /\ xout.index = <<0>>

\* the amount column the specification names for a table
SpecifiedAmountCol(tbl) == IF "adjusted_amount" \in tbl.cols THEN "adjusted_amount" ELSE "amount"

\* the sum of that column over the rows with the labels of a set
SumOfLabels(tbl, labels) ==
    SumSeq([p \in 1..Cardinality(labels) |-> tbl.rows[SeqOf(labels)[p] + 1][SpecifiedAmountCol(tbl)]])

\* C20: every sum a tool reports (summary.sum_eur, the sum of each group,
\* the amount of each row) is taken from adjusted_amount of the rows it
\* selected when the table has that column and from amount when it has not;
\* a row shows that column only, outliers_large selects by it, and
\* meta.amount_col names it
C20_AmountColumn ==
    (XCalled /\ xout.read) =>
        LET col == SpecifiedAmountCol(xgiven)
            res == xout.execution.result
        IN /\ res.meta.amount_col = col
           /\ "sum_eur" \in DOMAIN res.summary =>
                 /\ res.summary.sum_eur = SumOfLabels(xgiven, {xout.index[p] : p \in 1..Len(xout.index)})
                 /\ res.summary.count = Len(xout.index)
           /\ \A p \in 1..Len(res.rows) :
                 IF "sum_eur" \in DOMAIN res.rows[p]
                 THEN res.rows[p].sum_eur = SumOfLabels(xgiven, xout.members[p])
                 ELSE /\ DOMAIN res.rows[p] \cap {"amount", "adjusted_amount"} = {col}
                      /\ res.rows[p][col] = SumOfLabels(xgiven, xout.members[p])
           /\ xplan.tool = s_outliers_large =>
                 \A i \in Reported(xout) :
                    xgiven.rows[i + 1][col] * FloatScale >= xplan.args["min_amount"].i

C20_Witness ==
    /\ XCalled
    /\ xout.read
    /\ xplan.tool = s_sum_by_merchant
    /\ "adjusted_amount" \in xgiven.cols
    /\ Len(xout.index) = 2
    /\ xout.execution.result.summary.sum_eur = 110
    /\ SumSeq([p \in 1..Len(xgiven.rows) |-> xgiven.rows[p].amount]) = 120

\* row a of the table comes before row b when sorted by dt descending,
\* rows without a dt last
LaterThan(tbl, a, b) ==
    LET x == ToolDt(tbl, a)
        y == ToolDt(tbl, b)
    IN (~x.nat /\ y.nat) \/ (~x.nat /\ ~y.nat /\ MinuteOf(x) > MinuteOf(y))

LCalled == XCalled /\ xout.read /\ ~xout.raised /\ xplan.tool = s_get_latest

\* C25: get_latest(n, offset) returns the rows at the positions offset ..
\* offset + n - 1 (from 0) of the table sorted by dt descending, rows
\* without a dt last: min(n, max(0, rowcount - offset)) rows, each at a
\* position the sort can give it and in that order, summary.count being
\* their number; an offset at or beyond the size of the table gives no
\* rows and count 0
C25_LatestSlice ==
    LCalled =>
        LET rows == xout.execution.result.rows
            n == xplan.args["n"].i
            offset == xplan.args["offset"].i
            all == xgiven.rows
            size == Len(all)
            at == [p \in 1..Len(xout.index) |-> all[xout.index[p] + 1]]
        IN /\ Len(rows) = Min(n, IF size > offset THEN size - offset ELSE 0)
           /\ xout.execution.result.summary.count = Len(rows)
           /\ Len(xout.index) = Len(rows)
           /\ offset >= size => (rows = <<>> /\ xout.execution.result.summary.count = 0)
           /\ \A p, q \in 1..Len(at) : p < q =>
                 at[p].idx # at[q].idx /\ ~LaterThan(xgiven, at[q], at[p])
           /\ \A p \in 1..Len(at) :
                 /\ Cardinality({i \in 1..size : LaterThan(xgiven, all[i], at[p])}) <= offset + p - 1
                 /\ Cardinality({i \in 1..size : ~LaterThan(xgiven, at[p], all[i])}) >= offset + p
                 /\ rows[p].merchant = at[p].merchant
                 /\ rows[p][SpecifiedAmountCol(xgiven)] = at[p][SpecifiedAmountCol(xgiven)]

\* of two rows the older one is returned for offset 1, and n 2 gives that
\* one row only
C25_Witness ==
    /\ LCalled
    /\ xplan.args["n"] = IntV(2)
    /\ xplan.args["offset"] = IntV(1)
    /\ Len(xgiven.rows) = 2
    /\ xgiven.rows[1].date = Day10 /\ xgiven.rows[2].date = Day10 + 1
    /\ xout.index = <<0>>
    /\ Len(xout.execution.result.rows) = 1
    /\ xout.execution.result.summary.count = 1

\* ------------------------------------------------------------------------
\* recurring_merchants on its own
\* ------------------------------------------------------------------------

\* the state of everything but the executed plan: no validation, no period,
\* no chat turn under way
Elsewhere ==
    /\ PIdle
    /\ vplan = EmptyMap
    /\ vtoday = XDay
    /\ vstage = "off"
    /\ vfirst = NoResult
    /\ vsecond = NoResult
    /\ table = EmptyFrame
    /\ today = XDay
    /\ turn = 0
    /\ pc = "idle"
    /\ history = <<>>
    /\ query = <<>>
    /\ raw = EmptyMap
    /\ routed = NoResult
    /\ checked = NoResult
    /\ executed = <<>>
    /\ execution = <<>>
    /\ result = <<>>
    /\ answer = NoAnswer
    /\ events = <<>>
    /\ failed = {}

\* rows of an enumerated table of two merchants
MaxRecRows == 5

\* merchants of the table that fills the cap of line 239 and one more
ManyMerchants == 31

s_A == <<"A", "l", "e", "p", "a">>
s_B == <<"B", "i", "l", "t", "e", "m", "a">>

\* the transactions of the two merchants, not in the order of their dates:
\* one of them in December, January and February, the other in January and
\* February, and one without a date
RecInputs ==
    <<[date |-> Day10 + 31, time |-> 600, merchant |-> s_B, amount |-> 40],
      [date |-> Day10 + 10, time |-> 600, merchant |-> s_A, amount |-> 20],
      [date |-> Day10 - 13, time |-> 600, merchant |-> s_A, amount |-> 5],
      [date |-> Day10 + 15, time |-> 600, merchant |-> s_B, amount |-> 50],
      [date |-> Day10 + 24, time |-> 600, merchant |-> s_A, amount |-> 30],
      [date |-> NaT, time |-> 0, merchant |-> s_B, amount |-> 60]>>

\* a table of the pipeline made of the transactions rs
RecTable(rs) ==
    [cols |-> PipelineCols,
     rows |-> [p \in 1..Len(rs) |->
                 Tx(p - 1, rs[p].date, rs[p].time, rs[p].merchant, <<"f", "o", "o", "d">>,
                    rs[p].amount, rs[p].amount)]]

\* the tables of up to MaxRecRows of these transactions, each any number of
\* times, and a table where ManyMerchants merchants each have one
\* transaction in January and one in February, with sums that all differ
RecTables ==
    {RecTable([p \in 1..Len(c) |-> RecInputs[c[p]]]) :
        c \in {s \in UNION {[1..n -> 1..Len(RecInputs)] : n \in 0..MaxRecRows} :
                  \A p \in 1..(Len(s) - 1) : s[p] <= s[p + 1]}}
    \cup {RecTable([p \in 1..(2 * ManyMerchants) |->
                      [date |-> Day10 + 10 + 14 * (p % 2), time |-> 600,
                       merchant |-> <<"m">> \o NatStr((p + 1) \div 2), amount |-> p]])}

\* the plans for recurring_merchants, cleaned by validate_plan
RecurringPlans ==
    {validate_plan(PlanOf(Str(s_recurring_merchants),
                          Obj([k \in {"months", "min_count"} |->
                                 IF k = "months" THEN IntV(m) ELSE IntV(c)])), XDay).cleaned :
        m \in {1, 6}, c \in {2, 3}}

RInit ==
    /\ xgiven \in RecTables
    /\ xtable = xgiven
    /\ xplan = EmptyMap
    /\ xout = <<>>
    /\ JIdle
    /\ Elsewhere

\* execute_plan with a plan for recurring_merchants
RCall == \E plan \in RecurringPlans : ExecutePlan(plan)

RNext == RCall \/ XReturn

SpecRecurring == RInit /\ [][RNext]_vars

\* the rows of the table in the window of a call: those with a dt not
\* earlier than the latest dt of the table minus the months of the plan
WindowRows(tbl, months) ==
    LET dts == {ToolDt(tbl, tbl.rows[p]) : p \in 1..Len(tbl.rows)}
        known == {d \in dts : ~d.nat}
        latest == CHOOSE d \in known : \A o \in known : MinuteOf(o) <= MinuteOf(d)
    IN IF known = {} THEN <<>>
       ELSE SelectSeq(tbl.rows, LAMBDA r :
                /\ ~ToolDt(tbl, r).nat
                /\ MinuteOf(ToolDt(tbl, r)) >= MinuteOf(MinusMonths(latest, months)))

\* the rows of a merchant among rows
OfMerchant(rows, merchant) == SelectSeq(rows, LAMBDA r : r.merchant = merchant)

\* the calendar months the rows fall in
MonthsOf(tbl, rows) ==
    {<<FromOrdinal(ToolDt(tbl, rows[p]).day).y, FromOrdinal(ToolDt(tbl, rows[p]).day).m>> :
        p \in 1..Len(rows)}

\* the merchants with min_count transactions or more in the window, in two
\* distinct calendar months or more
RecurringMerchants(tbl, months, min_count) ==
    LET w == WindowRows(tbl, months)
    IN {m \in {w[p].merchant : p \in 1..Len(w)} :
          /\ Len(OfMerchant(w, m)) >= min_count
          /\ Cardinality(MonthsOf(tbl, OfMerchant(w, m))) >= 2}

\* a row of the result says of its merchant what the window holds
RowAsWindow(tbl, months, row) ==
    LET rs == OfMerchant(WindowRows(tbl, months), row.merchant)
    IN /\ row.txn_count = Len(rs)
       /\ row.months_active = Cardinality(MonthsOf(tbl, rs))
       /\ row.sum_eur = SumSeq([p \in 1..Len(rs) |-> rs[p][SpecifiedAmountCol(tbl)]])

\* row a is not after row b when sorted by (months_active, sum) descending
NotAfter(a, b) ==
    \/ a.months_active > b.months_active
    \/ (a.months_active = b.months_active /\ a.sum_eur >= b.sum_eur)

RCalled == XCalled /\ xout.read /\ xplan.tool = s_recurring_merchants

\* C21 as stated: recurring_merchants returns exactly the merchants with
\* min_count transactions or more in the window that are spread over 2
\* distinct calendar months or more, each once with its counts and its sum,
\* sorted by (months_active, sum) descending
C21_RecurringExactly ==
    RCalled =>
        LET rows == xout.execution.result.rows
            months == xplan.args["months"].i
        IN /\ {rows[p].merchant : p \in 1..Len(rows)}
                = RecurringMerchants(xgiven, months, xplan.args["min_count"].i)
           /\ \A p, q \in 1..Len(rows) : p < q =>
                 rows[p].merchant # rows[q].merchant /\ NotAfter(rows[p], rows[q])
           /\ \A p \in 1..Len(rows) : RowAsWindow(xgiven, months, rows[p])

\* C21: recurring_merchants returns merchants with min_count transactions
\* or more in the window that are spread over 2 distinct calendar months or
\* more, each once with its counts and its sum, sorted by (months_active,
\* sum) descending: all of them when they are 30 or fewer, and otherwise 30
\* of them that none of the others sorts before
C21_RecurringFirstThirty ==
    RCalled =>
        LET rows == xout.execution.result.rows
            months == xplan.args["months"].i
            all == RecurringMerchants(xgiven, months, xplan.args["min_count"].i)
            w == WindowRows(xgiven, months)
        IN /\ {rows[p].merchant : p \in 1..Len(rows)} \subseteq all
           /\ Len(rows) = Min(30, Cardinality(all))
           /\ "found" \in DOMAIN xout.execution.result.summary =>
                 xout.execution.result.summary.found = Len(rows)
           /\ \A p, q \in 1..Len(rows) : p < q =>
                 rows[p].merchant # rows[q].merchant /\ NotAfter(rows[p], rows[q])
           /\ \A p \in 1..Len(rows) : RowAsWindow(xgiven, months, rows[p])
           /\ \A m \in all \ {rows[p].merchant : p \in 1..Len(rows)} : \A p \in 1..Len(rows) :
                 \/ rows[p].months_active > Cardinality(MonthsOf(xgiven, OfMerchant(w, m)))
                 \/ /\ rows[p].months_active = Cardinality(MonthsOf(xgiven, OfMerchant(w, m)))
                    /\ rows[p].sum_eur >=
                          SumSeq([i \in 1..Len(OfMerchant(w, m)) |->
                                    OfMerchant(w, m)[i][SpecifiedAmountCol(xgiven)]])

\* three transactions of a merchant across two months are returned for
\* min_count 3 while another merchant's two are not, and the table holds a
\* row outside the one-month window
C21_Witness ==
    /\ RCalled
    /\ xplan.args["min_count"] = IntV(3)
    /\ xplan.args["months"] = IntV(1)
    /\ Len(xgiven.rows) = 5
    /\ Len(WindowRows(xgiven, 1)) = 4
    /\ Len(OfMerchant(WindowRows(xgiven, 1), s_B)) = 1
    /\ Len(xout.execution.result.rows) = 1
    /\ xout.execution.result.rows[1].merchant = s_A
    /\ xout.execution.result.rows[1].txn_count = 3
    /\ xout.execution.result.rows[1].months_active = 2

\* ------------------------------------------------------------------------
\* the tools on tables that lack a column
\* ------------------------------------------------------------------------

\* rows of an enumerated table that lacks a column
MaxGapRows == 1

\* tables of transactions without the column category, without the column
\* merchant, without both, and with both
GapTables ==
    {[cols |-> PipelineCols \ gone,
      rows |-> [p \in 1..Len(r) |->
                  Tx(p - 1, r[p].date, r[p].time, r[p].merchant, r[p].category, r[p].amount,
                     r[p].adjusted_amount)]] :
        gone \in SUBSET {"category", "merchant"},
        r \in UNION {[1..n -> TxInputs] : n \in 0..MaxGapRows}}

GInit ==
    /\ xgiven \in GapTables
    /\ xtable = xgiven
    /\ xplan = EmptyMap
    /\ xout = <<>>
    /\ JIdle
    /\ Elsewhere

\* execute_plan with a plan cleaned by validate_plan
GCall == \E plan \in ValidatedPlans : ExecutePlan(plan)

GNext == GCall \/ XReturn

SpecGaps == GInit /\ [][GNext]_vars

\* the columns the semantics of a call require: category for the tools
\* that select or group by it, merchant for those that select or group by it
RequiredColumns(plan, tbl) ==
    (IF \/ plan.tool \in {s_sum_by_category, s_category_trend}
        \/ (plan.tool = s_top_transactions /\ "category" \in DOMAIN plan.args)
        \/ (/\ plan.tool \in {s_group_by_month, s_merchant_breakdown}
            /\ ColumnOf(plan.args[IF plan.tool = s_group_by_month THEN "field" ELSE "by"].s)
                  \notin tbl.cols)
     THEN {"category"} ELSE {})
    \cup
    (IF \/ plan.tool \in {s_sum_by_merchant, s_merchant_breakdown, s_recurring_merchants}
        \/ (plan.tool = s_top_transactions /\ "merchant_substr" \in DOMAIN plan.args)
     THEN {"merchant"} ELSE {})

\* C22: a tool never raises for a missing column: group_by_month with a
\* field, or merchant_breakdown with a by, that is no column of the table
\* groups by category instead, and a tool called on a table that lacks a
\* column its semantics require returns a result without rows
C22_GracefulOnMissingColumn ==
    (XCalled /\ xout.read) =>
        /\ ~xout.raised
        /\ xplan.tool = s_group_by_month =>
              xout.execution.result.summary.field
                 = (IF ColumnOf(xplan.args["field"].s) \in xgiven.cols
                    THEN ColumnOf(xplan.args["field"].s) ELSE "category")
        /\ xplan.tool = s_merchant_breakdown =>
              xout.execution.result.summary.by
                 = (IF ColumnOf(xplan.args["by"].s) \in xgiven.cols
                    THEN ColumnOf(xplan.args["by"].s) ELSE "category")
        /\ ~(RequiredColumns(xplan, xgiven) \subseteq xgiven.cols) =>
              xout.execution.result.rows = <<>>

\* ------------------------------------------------------------------------
\* parse_router_output on its own
\* ------------------------------------------------------------------------

\* characters of an enumerated text of the Router LLM
MaxTextLen == 5

\* what a text is made of: the braces, a blank, a character that is no
\* JSON, "m" for the member "tool": "none" and "a" for the key of a member
\* "args": {...} whose value follows it
TextChars == {"{", "}", " ", "x", "m", "a"}

RouterTexts == UNION {[1..n -> TextChars] : n \in 0..MaxTextLen}

\* the position of the first c in s, 0 when there is none
FirstPos(s, c) ==
    IF \E p \in 1..Len(s) : s[p] = c THEN CHOOSE p \in 1..Len(s) : s[p] = c /\ \A q \in 1..(p - 1) : s[q] # c
    ELSE 0

\* the position of the last c in s, 0 when there is none
LastPos(s, c) ==
    IF \E p \in 1..Len(s) : s[p] = c THEN CHOOSE p \in 1..Len(s) : s[p] = c /\ \A q \in (p + 1)..Len(s) : s[q] # c
    ELSE 0

\* _extract_json(text): the stripped text when it starts with "{" and ends
\* with "}", else what re.search(r"\{.*\}", DOTALL) matches: from the first
\* "{" to the last "}" after it
extract_json(text) ==
    LET t == Strip(text)
        open == FirstPos(t, "{")
        shut == LastPos(t, "}")
    IN IF text = <<>> THEN [none |-> TRUE, s |-> <<>>]
       ELSE IF t # <<>> /\ t[1] = "{" /\ t[Len(t)] = "}" THEN [none |-> FALSE, s |-> t]
       ELSE IF open > 0 /\ shut > open THEN [none |-> FALSE, s |-> SubSeq(t, open, shut)]
       ELSE [none |-> TRUE, s |-> <<>>]

\* json.loads(s) for a text that starts with "{": the object, or a
\* ValueError. An object is {}, {m} or {a{...}}, with blanks between the
\* tokens
RECURSIVE json_loads(_)
json_loads(s) ==
    LET t == Strip(s)
        inner == IF Len(t) >= 2 THEN Strip(SubSeq(t, 2, Len(t) - 1)) ELSE <<>>
    IN IF Len(t) < 2 \/ t[1] # "{" \/ t[Len(t)] # "}" THEN [raised |-> TRUE, value |-> Null]
       ELSE IF inner = <<>> THEN [raised |-> FALSE, value |-> Obj(EmptyMap)]
       ELSE IF inner = <<"m">>
            THEN [raised |-> FALSE, value |-> Obj([k \in {"tool"} |-> Str(s_none)])]
       ELSE IF inner[1] = "a"
            THEN LET v == json_loads(SubSeq(inner, 2, Len(inner)))
                 IN IF v.raised THEN v
                    ELSE [raised |-> FALSE, value |-> Obj([k \in {"args"} |-> v.value])]
       ELSE [raised |-> TRUE, value |-> Null]

\* the plan returned when json.loads raises
NonePlan == Obj(PlanOf(Str(s_none), Obj(EmptyMap)))

\* parse_router_output(text)
parse_router_output(text) ==
    LET e == extract_json(text)
        j == json_loads(IF e.none \/ e.s = <<>> THEN <<"{", "}">> ELSE e.s)
    IN [raised |-> FALSE, plan |-> IF j.raised THEN NonePlan ELSE j.value]

JInit ==
    /\ jtext \in RouterTexts
    /\ jplan = <<>>
    /\ XIdle
    /\ Elsewhere

\* run_router hands the text of the model to parse_router_output
JParse ==
    /\ jplan = <<>>
    /\ jplan' = parse_router_output(jtext)
    /\ UNCHANGED jtext
    /\ UNCHANGED <<vvars, tvars, pvars, xvars>>

JNext == JParse

SpecParse == JInit /\ [][JNext]_vars

\* the position of the brace that closes the block open at depth before
\* position p of s, 0 when it is never closed
RECURSIVE ClosePos(_, _, _)
ClosePos(s, p, depth) ==
    IF p > Len(s) THEN 0
    ELSE IF s[p] = "{" THEN ClosePos(s, p + 1, depth + 1)
    ELSE IF s[p] = "}" THEN (IF depth = 1 THEN p ELSE ClosePos(s, p + 1, depth - 1))
    ELSE ClosePos(s, p + 1, depth)

\* the first top-level {...} block of a text: from its first "{" to the
\* brace that closes it
FirstBlock(text) ==
    LET open == FirstPos(text, "{")
        shut == IF open = 0 THEN 0 ELSE ClosePos(text, open + 1, 1)
    IN IF shut = 0 THEN [none |-> TRUE, s |-> <<>>]
       ELSE [none |-> FALSE, s |-> SubSeq(text, open, shut)]

JParsed == jplan # <<>>

\* C23: parse_router_output never raises and returns what the first
\* top-level {...} block of the text holds, whatever text comes before the
\* block and after it (braces and a second block included), and the plan
\* {tool: none, args: {}} when there is no block or the block is no JSON
C23_FirstBlockParsed ==
    JParsed =>
        /\ ~jplan.raised
        /\ jplan.plan = (IF FirstBlock(jtext).none \/ json_loads(FirstBlock(jtext).s).raised
                         THEN NonePlan
                         ELSE json_loads(FirstBlock(jtext).s).value)

\* ------------------------------------------------------------------------
\* group_by_month on its own
\* ------------------------------------------------------------------------

\* rows of an enumerated table of two categories
MaxMonthRows == 4

\* months of the table that has more months than the cap of line 203 keeps
ManyMonths == 13

s_Groceries == <<"G", "r", "o", "c", "e", "r", "i", "e", "s">>
s_Rent == <<"R", "e", "n", "t">>

\* the transactions of the two categories: groceries of 10 and 20 in
\* January and 30 in February, rent of 25 in January and of 30 in February,
\* and groceries without a date
MonthInputs ==
    <<[date |-> Day10 + 22, time |-> 600, merchant |-> s_A, category |-> s_Groceries, amount |-> 30],
      [date |-> Day10, time |-> LastMinute, merchant |-> s_A, category |-> s_Groceries, amount |-> 10],
      [date |-> Day10 + 1, time |-> 0, merchant |-> s_B, category |-> s_Groceries, amount |-> 20],
      [date |-> Day10 + 1, time |-> 600, merchant |-> s_B, category |-> s_Rent, amount |-> 25],
      [date |-> Day10 + 25, time |-> 600, merchant |-> s_B, category |-> s_Rent, amount |-> 30],
      [date |-> NaT, time |-> 0, merchant |-> s_A, category |-> s_Groceries, amount |-> 7]>>

\* a table of the pipeline made of the transactions rs
MonthTable(rs) ==
    [cols |-> PipelineCols,
     rows |-> [p \in 1..Len(rs) |->
                 Tx(p - 1, rs[p].date, rs[p].time, rs[p].merchant, rs[p].category,
                    rs[p].amount, rs[p].amount)]]

\* the tables of up to MaxMonthRows of these transactions, each any number
\* of times, and a table with one transaction of groceries on the 15th of
\* each of ManyMonths months in a row
MonthTables ==
    {MonthTable([p \in 1..Len(c) |-> MonthInputs[c[p]]]) :
        c \in {s \in UNION {[1..n -> 1..Len(MonthInputs)] : n \in 0..MaxMonthRows} :
                  \A p \in 1..(Len(s) - 1) : s[p] <= s[p + 1]}}
    \cup {MonthTable([p \in 1..ManyMonths |->
                        [date |-> ToOrdinal([y |-> 2024 + (p \div 12), m |-> (p % 12) + 1, d |-> 15]),
                         time |-> 600, merchant |-> s_A, category |-> s_Groceries, amount |-> p]])}

\* the plans for group_by_month, cleaned by validate_plan
MonthPlans == {plan \in ValidatedPlans : plan.tool = s_group_by_month}

MInit ==
    /\ xgiven \in MonthTables
    /\ xtable = xgiven
    /\ xplan = EmptyMap
    /\ xout = <<>>
    /\ JIdle
    /\ Elsewhere

\* execute_plan with a plan for group_by_month
MCall == \E plan \in MonthPlans : ExecutePlan(plan)

MNext == MCall \/ XReturn

SpecMonths == MInit /\ [][MNext]_vars

\* the rows of the table a call of group_by_month is about: those in the
\* date range of the plan
RangeRows(tbl, plan) ==
    SelectSeq(tbl.rows, LAMBDA r : InRange(tbl, r, plan.args["start_date"], plan.args["end_date"]))

\* the column group_by_month groups by: the field of the plan, or category
\* when the field is no column
FieldOf(tbl, plan) ==
    IF ColumnOf(plan.args["field"].s) \in tbl.cols THEN ColumnOf(plan.args["field"].s)
    ELSE "category"

\* the rows of a month with a value in the column col
BucketRows(tbl, rows, col, month, value) ==
    SelectSeq(rows, LAMBDA r : YmOf(ToolDt(tbl, r)) = month /\ r[col] = value)

\* the sum of the amounts of rows
AmountSum(tbl, rows) == SumSeq([p \in 1..Len(rows) |-> rows[p][SpecifiedAmountCol(tbl)]])

\* the values of the column col in a month
ValuesIn(tbl, rows, col, month) ==
    {rows[p][col] : p \in {q \in 1..Len(rows) : YmOf(ToolDt(tbl, rows[q])) = month}}

\* the groups a call may return at most: top_k of each month, or all the
\* groups of the month when they are fewer
RECURSIVE PerMonthTotal(_, _, _, _, _)
PerMonthTotal(tbl, rows, col, months, top_k) ==
    IF months = {} THEN 0
    ELSE LET m == CHOOSE x \in months : TRUE
         IN Min(top_k, Cardinality(ValuesIn(tbl, rows, col, m)))
               + PerMonthTotal(tbl, rows, col, months \ {m}, top_k)

MCalled ==
    /\ XCalled
    /\ xout.read
    /\ ~xout.raised
    /\ xplan.tool = s_group_by_month
    /\ IsBound(xplan.args["start_date"])
    /\ IsBound(xplan.args["end_date"])

\* C24: group_by_month groups the rows of the date range by (month, field):
\* every returned row is one such group with its month, its value and the
\* sum of its amounts, no group is returned twice, a month has top_k
\* returned groups at most and no group of the month left out has a larger
\* sum than one returned for it, and the rows are 12 x top_k at most: all
\* of the top_k of the months when those are no more than that
C24_TopPerMonth ==
    MCalled =>
        LET rows == xout.execution.result.rows
            top_k == xplan.args["top_k"].i
            col == FieldOf(xgiven, xplan)
            kept == RangeRows(xgiven, xplan)
            months == {YmOf(ToolDt(xgiven, kept[p])) : p \in 1..Len(kept)}
        IN /\ \A p \in 1..Len(rows) :
                 /\ rows[p].value \in ValuesIn(xgiven, kept, col, rows[p].month)
                 /\ rows[p].sum_eur
                       = AmountSum(xgiven, BucketRows(xgiven, kept, col, rows[p].month, rows[p].value))
                 /\ Cardinality({q \in 1..Len(rows) : rows[q].month = rows[p].month}) <= top_k
                 /\ \A v \in ValuesIn(xgiven, kept, col, rows[p].month) :
                       \/ \E q \in 1..Len(rows) : rows[q].month = rows[p].month /\ rows[q].value = v
                       \/ AmountSum(xgiven, BucketRows(xgiven, kept, col, rows[p].month, v))
                             <= rows[p].sum_eur
           /\ \A p, q \in 1..Len(rows) :
                 (rows[p].month = rows[q].month /\ rows[p].value = rows[q].value) => p = q
           /\ Len(rows) <= 12 * top_k
           /\ Len(rows) = Min(12 * top_k, PerMonthTotal(xgiven, kept, col, months, top_k))

\* rows of 10 and 20 in 2025-01 and of 30 in 2025-02, all groceries, give
\* the buckets 2025-01: 30 and 2025-02: 30 for field category and top_k 1
C24_Witness ==
    /\ MCalled
    /\ xplan.args["field"] = Str(s_category)
    /\ xplan.args["top_k"] = IntV(1)
    /\ Len(xgiven.rows) = 3
    /\ \A p \in 1..3 : xgiven.rows[p].category = s_Groceries
    /\ {<<xgiven.rows[p].amount, YmOf(ToolDt(xgiven, xgiven.rows[p]))>> : p \in 1..3}
          = {<<10, [y |-> 2025, m |-> 1]>>, <<20, [y |-> 2025, m |-> 1]>>,
             <<30, [y |-> 2025, m |-> 2]>>}
    /\ xout.execution.result.rows
          = <<[month |-> [y |-> 2025, m |-> 1], field |-> "category", value |-> s_Groceries,
               sum_eur |-> 30],
              [month |-> [y |-> 2025, m |-> 2], field |-> "category", value |-> s_Groceries,
               sum_eur |-> 30]>>

\* ------------------------------------------------------------------------
\* the merchant filter on its own
\* ------------------------------------------------------------------------

\* rows of an enumerated table of three merchants
MaxPatRows == 3

\* the merchants of the table
PatMerchants ==
    {<<"K", "-", "M", "a", "r", "k", "e", "t">>, <<"L", "i", "d", "l">>,
     <<"A", "+", "B", " ", "(", "O", "y", ")">>}

\* tables of the pipeline with up to MaxPatRows transactions of these
\* merchants, all on one day
PatTables ==
    {[cols |-> PipelineCols,
      rows |-> [p \in 1..Len(ms) |-> Tx(p - 1, Day10, 600, ms[p], <<"f", "o", "o", "d">>, 10 * p, 10 * p)]] :
        ms \in UNION {[1..n -> PatMerchants] : n \in 0..MaxPatRows}}

\* what the router gives as merchant_substr: letters, and the characters a
\* regular expression reads as operators
Patterns ==
    {<<"m", "a", "r", "k", "e", "t">>, <<"k", ".", "m">>, <<"(">>, <<"[">>, <<"*">>, <<"+">>,
     <<"a", "+", "b">>}

\* the plans with a merchant filter, cleaned by validate_plan
PatternPlans ==
    {validate_plan(PlanOf(Str(t), Obj([k \in {"merchant_substr"} |-> Str(pat)])), XDay).cleaned :
        t \in {s_sum_by_merchant, s_top_transactions, s_merchant_breakdown}, pat \in Patterns}

FInit ==
    /\ xgiven \in PatTables
    /\ xtable = xgiven
    /\ xplan = EmptyMap
    /\ xout = <<>>
    /\ JIdle
    /\ Elsewhere

\* execute_plan with a plan that filters by merchant
FCall == \E plan \in PatternPlans : ExecutePlan(plan)

FNext == FCall \/ XReturn

SpecMerchant == FInit /\ [][FNext]_vars

FCalled == XCalled /\ xout.read /\ "merchant_substr" \in DOMAIN xplan.args

\* C26: a call that filters by merchant never raises because of the
\* characters of merchant_substr and selects exactly the rows whose
\* merchant contains merchant_substr as a literal substring, whatever the
\* case of the letters
C26_LiteralSubstring ==
    FCalled =>
        /\ ~xout.raised
        /\ {xout.index[p] : p \in 1..Len(xout.index)}
              = {xgiven.rows[p].idx : p \in {q \in 1..Len(xgiven.rows) :
                    Contains(Lower(xgiven.rows[q].merchant), Lower(xplan.args["merchant_substr"].s))}}

\* ------------------------------------------------------------------------
\* the tools on large tables
\* ------------------------------------------------------------------------

\* rows of the table of many merchants: more than any cap on the rows of a
\* result
ManyRows == 62

\* rows of the table of many months: more months than any window holds
LongMonths == 30

\* the first size rows of a table where every merchant has a transaction
\* in January and one in February 2025, all at different times of the day
\* and of different amounts
MerchantsTable(size) ==
    [cols |-> PipelineCols,
     rows |-> [p \in 1..size |->
                 Tx(p - 1, Day10 + 10 + 14 * (p % 2), p, <<"m">> \o NatStr((p + 1) \div 2),
                    <<"f", "o", "o", "d">>, 100 + p, 100 + p)]]

\* the first size rows of a table with one transaction on the 15th of
\* every month from February 2023 on
MonthsTable(size) ==
    [cols |-> PipelineCols,
     rows |-> [p \in 1..size |->
                 Tx(p - 1, ToOrdinal([y |-> 2023 + (p \div 12), m |-> (p % 12) + 1, d |-> 15]), 600,
                    <<"m", "1">>, <<"f", "o", "o", "d">>, 100 + p, 100 + p)]]

CapTables ==
    {MerchantsTable(size) : size \in {0, 11, 21, 51, ManyRows}}
    \cup {MonthsTable(size) : size \in {13, 26, LongMonths}}

\* the arguments the router gives for a tool
CapArgs(tool) ==
    CASE tool = s_get_latest -> {[k \in {"n"} |-> IntV(n)] : n \in {3, 10}}
      [] tool = s_top_transactions -> {[k \in {"n"} |-> IntV(n)] : n \in {3, 50}}
      [] tool = s_sum_by_merchant -> {[k \in {"merchant_substr"} |-> Str(<<"m">>)]}
      [] tool = s_sum_by_category -> {[k \in {"category"} |-> Str(<<"F", "o", "o", "d">>)]}
      [] tool = s_outliers_large -> {[k \in {"min_amount"} |-> FloatV(6 * FloatScale)]}
      [] tool = s_group_by_month ->
            {[k \in {"field", "top_k"} |-> IF k = "field" THEN Str(f) ELSE IntV(n)] :
                f \in {s_category, s_merchant}, n \in {1, 2}}
      [] tool = s_recurring_merchants ->
            {[k \in {"months", "min_count"} |-> IF k = "months" THEN IntV(n) ELSE IntV(2)] :
                n \in {6, 24}}
      [] tool = s_merchant_breakdown ->
            {[k \in {"merchant_substr", "by"} |-> IF k = "by" THEN Str(f) ELSE Str(<<"m">>)] :
                f \in {s_category, s_merchant}}
      [] tool = s_category_trend ->
            {[k \in {"category", "months"} |->
                 IF k = "months" THEN IntV(n) ELSE Str(<<"f", "o", "o", "d">>)] : n \in {6, 24}}

\* the plans of these arguments, cleaned by validate_plan
CapPlans ==
    UNION {{validate_plan(PlanOf(Str(t), Obj(m)), XDay).cleaned : m \in CapArgs(t)} :
           t \in TOOL_REGISTRY}

CInit ==
    /\ xgiven \in CapTables
    /\ xtable = xgiven
    /\ xplan = EmptyMap
    /\ xout = <<>>
    /\ JIdle
    /\ Elsewhere

\* execute_plan with one of these plans
CCall == \E plan \in CapPlans : ExecutePlan(plan)

CNext == CCall \/ XReturn

SpecCaps == CInit /\ [][CNext]_vars

CCalled == XCalled /\ xout.read /\ ~xout.raised

\* the most rows a result of a validated plan may hold: the window of
\* category_trend spans months + 1 calendar months, and months is 24 at most
RowCap(plan) ==
    CASE plan.tool \in {s_get_latest, s_top_transactions} -> plan.args["n"].i
      [] plan.tool \in {s_sum_by_merchant, s_sum_by_category, s_outliers_large} -> 50
      [] plan.tool = s_group_by_month -> 12 * plan.args["top_k"].i
      [] plan.tool = s_recurring_merchants -> 30
      [] plan.tool = s_merchant_breakdown -> 20
      [] plan.tool = s_category_trend -> 25

\* C27: whatever the size of the table, the rows of the result of a
\* validated plan are no more than the cap of its tool: n for get_latest and
\* top_transactions, 50 for sum_by_merchant, sum_by_category and
\* outliers_large, 12 x top_k for group_by_month, 30 for
\* recurring_merchants, 20 for merchant_breakdown, 25 for category_trend
C27_RowCaps == CCalled => Len(xout.execution.result.rows) <= RowCap(xplan)

\* every tool fills its cap on a table that holds more: the summary of
\* sum_by_merchant counts 62 rows and 50 are returned
C27_Witness ==
    /\ CCalled
    /\ xplan.tool = s_sum_by_merchant
    /\ Len(xgiven.rows) = ManyRows
    /\ xout.execution.result.summary.count = ManyRows
    /\ Len(xout.execution.result.rows) = 50

\* ------------------------------------------------------------------------
\* the fast path next to get_latest
\* ------------------------------------------------------------------------

\* rows of an enumerated table whose rows share a day
MaxAgreeRows == 3

\* transactions of one day at two times and at a time that is none, one of
\* the next day at midnight, and one without a date
AgreeInputs ==
    {[date |-> Day10, time |-> 600], [date |-> Day10, time |-> 700],
     [date |-> Day10, time |-> BadTime], [date |-> Day10 + 1, time |-> 0],
     [date |-> NaT, time |-> 600]}

\* tables of the pipeline, with the column time or without it
AgreeTables ==
    {[cols |-> c,
      rows |-> [p \in 1..Len(r) |->
                  Tx(p - 1, r[p].date, r[p].time, s_A, <<"f", "o", "o", "d">>, 10 * p, 10 * p)]] :
        c \in {PipelineCols, PipelineCols \ {"time"}},
        r \in UNION {[1..n -> AgreeInputs] : n \in 1..MaxAgreeRows}}

\* the questions of the model that ask for the row at index idx
QueriesFor(idx) == {q \in OrderQueries : OrderIndex(Lower(q)) = idx}

\* the plan of get_latest for the row at index idx, cleaned by validate_plan
LatestPlan(idx) ==
    validate_plan(PlanOf(Str(s_get_latest),
                         Obj([k \in {"n", "offset"} |-> IF k = "n" THEN IntV(1) ELSE IntV(idx)])),
                  XDay).cleaned

AInit ==
    /\ xgiven \in AgreeTables
    /\ xtable = xgiven
    /\ xplan = EmptyMap
    /\ xout = <<>>
    /\ JIdle
    /\ Elsewhere

\* the same question answered by the fast path (lines 403-410 of
\* app/ai_assistant.py) and by get_latest with n 1 and the index as offset.
\* sort_values is a function of the dt column: it leaves two equal columns
\* in the same order, and columns that differ each in an order of their own
ABoth ==
    /\ xplan = EmptyMap
    /\ \E idx \in 0..2 : \E question \in QueriesFor(idx) :
       \E g \in SortedPositions(ensure_dt(xtable).rows, LAMBDA a, b : SortsBefore(a.dt, b.dt)) :
       \E e \in {tools_ensure_dt(Given(xtable))} :
       \E h \in IF [p \in 1..Len(e.rows) |-> e.rows[p].dt]
                     = [p \in 1..Len(e.rows) |-> ensure_dt(xtable).rows[p].dt]
                THEN {g} ELSE SortedPositions(e.rows, DtDescBefore) :
          /\ xplan' = LatestPlan(idx)
          /\ xout' = [fast |-> handle_order_query(
                                  [cols |-> ensure_dt(xtable).cols,
                                   rows |-> [p \in 1..Len(g) |-> ensure_dt(xtable).rows[g[p]]]],
                                  Lower(question)),
                      fast_label |-> IF Len(g) > idx THEN xtable.rows[g[idx + 1]].idx ELSE -1,
                      tool |-> get_latest_sorted(e, h, LatestPlan(idx).args["n"].i,
                                                 LatestPlan(idx).args["offset"].i)]
          /\ xtable' = xtable
    /\ xgiven' = xgiven
    /\ UNCHANGED <<vvars, tvars, pvars, jvars>>

ANext == ABoth \/ XReturn

SpecAgree == AInit /\ [][ANext]_vars

ACalled == XCalled /\ xplan.tool = s_get_latest /\ "fast" \in DOMAIN xout

\* C29: on a table with idx + 1 rows or more, idx being 0, 1 or 2, the row
\* the fast path formats for index idx is the transaction
\* get_latest(n=1, offset=idx) returns, with the same dt
C29_FastPathAsLatest ==
    (ACalled /\ Len(xgiven.rows) >= xplan.args["offset"].i + 1) =>
        /\ xout.fast.kind = "row"
        /\ xout.fast.idx = xplan.args["offset"].i
        /\ xout.tool.index = <<xout.fast_label>>
        /\ Len(xout.tool.result.rows) = 1
        /\ xout.fast.tx.dt_str
              = (IF xout.tool.result.rows[1].dt.nat
                 THEN <<xgiven.rows[xout.fast_label + 1].date>>
                 ELSE <<xout.tool.result.rows[1].dt.day, xout.tool.result.rows[1].dt.time>>)

\* of three rows of one day, at 10:00, at 11:40 and at a time that is none,
\* both give the one at 10:00 for index 1
C29_Witness ==
    /\ ACalled
    /\ xplan.args["offset"] = IntV(1)
    /\ "time" \in xgiven.cols
    /\ Len(xgiven.rows) = 3
    /\ xgiven.rows[1].time = BadTime /\ xgiven.rows[2].time = 700 /\ xgiven.rows[3].time = 600
    /\ \A p \in 1..3 : xgiven.rows[p].date = Day10
    /\ xout.fast_label = 2
    /\ xout.tool.index = <<2>>

====
